---- MODULE Spec2Model ----
(***************************************************************************)
(* Underwriting engine of the real-estate investment analysis repository: *)
(* UnderwritingEngine (src/src/underwriting_engine.py) and the            *)
(* FinancialCalculator (src/src/financial_calculator.py).                 *)
(*                                                                         *)
(* Number representation.  The program computes in binary floating point; *)
(* the model computes in exact integer fixed point:                       *)
(*   - money is an integer number of cents;                               *)
(*   - a rate (0.065, 0.20, ...) is an integer number of 1/10000          *)
(*     (basis points): 0.065 is 650, 0.20 is 2000;                        *)
(*   - the engine's cash-on-cash return, a fraction in the program, is an *)
(*     integer number of 1/1000000: 0.09 is 90000;                        *)
(*   - the calculator's returns, percentages rounded to 2 decimals in the *)
(*     program, are an integer number of 1/100 of a percent: 9.00 is 900; *)
(*   - the monthly rate and (1 + c)^n are fixed point with 6 decimals.    *)
(* Every product or quotient is the exact real one rounded down to the    *)
(* unit of its result, computed without leaving 32 bits.                  *)
(***************************************************************************)
EXTENDS Integers, Sequences, FiniteSets, TLC

VARIABLES
    financial_data,   \* UnderwritingEngine.financial_data (FinancialData)
    self_opex,        \* UnderwritingEngine.opex (OperatingExpenses defaults)
    current_year,     \* datetime.now().year, read by assess_risk
    pc,               \* position inside underwrite_property, "idle" between calls
    frame,            \* local variables of the running underwrite_property call
    outcome,          \* what the last underwrite_property call gave its caller
    ret,              \* the last direct call of another public method
    calculator,       \* attributes of the FinancialCalculator
    sourcing          \* position and locals of the running PropertySourcer call

vars == <<financial_data, self_opex, current_year, pc, frame, outcome, ret, calculator,
          sourcing>>

----------------------------------------------------------------------------
(* Bounds of the model *)

\* rents offered to the engine: 0, 3200 and 1780 + 30 * k for k in 0..MaxRentSteps
MaxRentSteps == 4
\* the clock may move from 2025 to 2025 + MaxYearTicks
MaxYearTicks == 1
\* significant bits of the binary floating-point model of calculate_mortgage
MantissaBits == 8
\* the longest list handed to process_properties
MaxProperties == 2

----------------------------------------------------------------------------
(* Fixed-point arithmetic *)

RateScale == 10 ^ 4          \* units of a rate per 1
CocScale == 10 ^ 6           \* units of the engine's coc_return per 1
FixScale == 10 ^ 6           \* units of monthly_rate and (1 + c)^n per 1
Cents == 10 ^ 2              \* cents per currency unit

\* float('inf'), the default oop_requirement: above every 32-bit amount
Inf == 2147483647

Abs(a) == IF a < 0 THEN -a ELSE a

\* floor(x * r / RateScale): an amount times a rate (or a rate times FixScale
\* over RateScale), for any sign of x and 0 <= r < 200000
MulRate(x, r) ==
    LET hi == x \div RateScale
        lo == x % RateScale
    IN  hi * r + (lo * r) \div RateScale

\* floor(a * b / FixScale): a fixed-point product, for b >= 0
MulFix(a, b) ==
    LET a1 == a \div 1000
        a0 == a % 1000
        b1 == b \div 1000
        b0 == b % 1000
    IN  a1 * b1 + (a1 * b0 + a0 * b1 + (a0 * b0) \div 1000) \div 1000

\* one digit of a long division by d: <<q, r>> becomes <<q, r>> of k times as much
DivStep(qr, k, d) == <<qr[1] * k + (qr[2] * k) \div d, (qr[2] * k) % d>>

\* <<q, r>> with n * 10^4 = q * d + r, for n >= 0 and 0 < d < 4 * 10^8
ScaleDiv4(n, d) ==
    LET s0 == <<n \div d, n % d>>
        s1 == DivStep(s0, 5, d)
        s2 == DivStep(s1, 5, d)
        s3 == DivStep(s2, 5, d)
        s4 == DivStep(s3, 5, d)
        s5 == DivStep(s4, 4, d)
    IN  DivStep(s5, 4, d)

\* <<q, r>> with n * 10^6 = q * d + r, for n >= 0 and 0 < d < 4 * 10^8
ScaleDiv6(n, d) ==
    LET s6 == ScaleDiv4(n, d)
        s7 == DivStep(s6, 5, d)
        s8 == DivStep(s7, 5, d)
    IN  DivStep(s8, 4, d)

\* floor(n * 10^6 / d) for any sign of n
DivFix(n, d) ==
    LET qr == ScaleDiv6(Abs(n), d)
    IN  IF n >= 0 THEN qr[1]
        ELSE IF qr[2] = 0 THEN -qr[1] ELSE -(qr[1] + 1)

\* round(n * 10^4 / d), ties to even as Python's round() does, for any sign of n
DivRound4(n, d) ==
    LET qr == ScaleDiv4(Abs(n), d)
        up == \/ 2 * qr[2] > d
              \/ 2 * qr[2] = d /\ qr[1] % 2 = 1
        m == IF up THEN qr[1] + 1 ELSE qr[1]
    IN  IF n >= 0 THEN m ELSE -m

\* (b / FixScale)^n in fixed point, by repeated squaring
Pow[b \in Nat, n \in Nat] ==
    IF n = 0 THEN FixScale
    ELSE LET h == Pow[b, n \div 2]
             h2 == MulFix(h, h)
         IN  IF n % 2 = 0 THEN h2 ELSE MulFix(h2, b)

----------------------------------------------------------------------------
(* Data model *)

\* FinancialData(): the engine's default assumptions
FinancialData ==
    [down_payment_pct |-> 2000, interest_rate |-> 650, loan_term |-> 30,
     property_tax_rate |-> 250, insurance_rate |-> 80, maintenance_rate |-> 150,
     management_rate |-> 800, vacancy_rate |-> 500, closing_costs_pct |-> 300]

\* OperatingExpenses(): the default monthly line items, in cents
OperatingExpenses ==
    [internet |-> 100 * Cents, water |-> 60 * Cents, electricity |-> 300 * Cents,
     natural_gas |-> 0, pest_control |-> 50 * Cents,
     pool_maintenance |-> 150 * Cents, property_tax |-> 0, insurance |-> 0,
     maintenance |-> 0, management |-> 0, vacancy |-> 0]

----------------------------------------------------------------------------
(* UnderwritingEngine: the methods, as operators over self = the state *)

\* a raised exception, as the value a raising method gives in place of a result
Raised(msg) == [raised |-> msg]
IsRaised(v) == "raised" \in DOMAIN v
NoError == ""
\* a sequence a method returns where it can also raise
Returned(v) == [value |-> v]

\* validate_inputs with the upper bound of the rate written >=
validate_inputs_rate_ge(purchase_price, down_payment_pct, interest_rate) ==
    IF purchase_price <= 0 THEN "Purchase price must be positive"
    ELSE IF down_payment_pct < 2000 THEN "Down payment must be at least 20%"
    ELSE IF interest_rate <= 0 THEN "Interest rate must be positive"
    ELSE IF interest_rate >= 2000 THEN "Interest rate seems unrealistic"
    ELSE NoError

\* validate_inputs: the message of the ValueError raised, NoError when none is
validate_inputs(purchase_price, down_payment_pct, interest_rate) ==
    IF purchase_price <= 0 THEN "Purchase price must be positive"
    ELSE IF down_payment_pct < 2000 THEN "Down payment must be at least 20%"
    ELSE IF interest_rate <= 0 THEN "Interest rate must be positive"
    ELSE IF interest_rate > 2000 THEN "Interest rate seems unrealistic"
    ELSE NoError

\* the PMT formula of calculate_mortgage
monthly_payment_of(loan_amount, monthly_rate, num_payments) ==
    IF monthly_rate = 0 THEN loan_amount \div num_payments
    ELSE LET q == Pow[FixScale + monthly_rate, num_payments]
             lc == MulFix(loan_amount, monthly_rate)
         IN  \* lc * q / (q - 1), written lc + lc / (q - 1)
             lc + DivFix(lc, q - FixScale)

\* calculate_mortgage catching the validation error and giving zero-filled terms
calculate_mortgage_zero_filled(purchase_price, down_payment_pct, interest_rate) ==
    [down_payment |-> 0, loan_amount |-> 0, monthly_payment |-> 0,
     closing_costs |-> 0, total_oop |-> 0, monthly_rate |-> 0,
     num_payments |-> financial_data.loan_term * 12]

calculate_mortgage(purchase_price, down_payment_pct, interest_rate) ==
    LET invalid == validate_inputs(purchase_price, down_payment_pct, interest_rate)
        down_payment == MulRate(purchase_price, down_payment_pct)
        loan_amount == purchase_price - down_payment
        monthly_rate == MulRate(FixScale, interest_rate) \div 12
        num_payments == financial_data.loan_term * 12
        monthly_payment == monthly_payment_of(loan_amount, monthly_rate, num_payments)
        closing_costs == MulRate(purchase_price, financial_data.closing_costs_pct)
    IN  IF invalid # NoError THEN Raised(invalid)
        ELSE [down_payment |-> down_payment,
              loan_amount |-> loan_amount,
              monthly_payment |-> monthly_payment,
              closing_costs |-> closing_costs,
              total_oop |-> down_payment + closing_costs,
              monthly_rate |-> monthly_rate,
              num_payments |-> num_payments]

calculate_operating_expenses(purchase_price, estimated_rent) ==
    [OperatingExpenses EXCEPT
        !.property_tax = MulRate(purchase_price, financial_data.property_tax_rate) \div 12,
        !.insurance = MulRate(purchase_price, financial_data.insurance_rate) \div 12,
        !.maintenance = MulRate(purchase_price, financial_data.maintenance_rate) \div 12,
        !.management = MulRate(estimated_rent, financial_data.management_rate),
        !.vacancy = MulRate(estimated_rent, financial_data.vacancy_rate),
        !.internet = 100 * Cents,
        !.water = 60 * Cents,
        !.electricity = 300 * Cents,
        !.natural_gas = 0,
        !.pest_control = 50 * Cents,
        !.pool_maintenance = 150 * Cents]

\* total_monthly_expenses of calculate_cash_flow
total_monthly_expenses_of(opex) ==
    opex.internet + opex.water + opex.electricity + opex.natural_gas +
    opex.pest_control + opex.pool_maintenance + opex.property_tax +
    opex.insurance + opex.maintenance + opex.management

calculate_cash_flow(estimated_rent, opex, monthly_mortgage) ==
    LET total_monthly_expenses == total_monthly_expenses_of(opex)
        net_operating_income == estimated_rent - total_monthly_expenses
        monthly_cash_flow == net_operating_income - monthly_mortgage
        annual_cash_flow == monthly_cash_flow * 12
    IN  [monthly_rent |-> estimated_rent,
         monthly_expenses |-> total_monthly_expenses,
         monthly_mortgage |-> monthly_mortgage,
         net_operating_income |-> net_operating_income,
         monthly_cash_flow |-> monthly_cash_flow,
         annual_cash_flow |-> annual_cash_flow,
         expense_breakdown |->
            [utilities |-> opex.internet + opex.water + opex.electricity + opex.natural_gas,
             maintenance |-> opex.pest_control + opex.pool_maintenance + opex.maintenance,
             taxes_insurance |-> opex.property_tax + opex.insurance,
             management |-> opex.management,
             vacancy |-> opex.vacancy]]

\* calculate_coc_return giving the percentage rounded to 2 decimals
calculate_coc_return_percent(annual_cash_flow, down_payment) ==
    IF down_payment <= 0 THEN 0
    ELSE DivRound4(annual_cash_flow, down_payment) * (CocScale \div 100)

\* calculate_coc_return guarding only a down payment of exactly zero
calculate_coc_return_zero_only(annual_cash_flow, down_payment) ==
    IF down_payment = 0 THEN 0
    ELSE IF down_payment < 0 THEN -DivFix(annual_cash_flow, -down_payment)
    ELSE DivFix(annual_cash_flow, down_payment)

calculate_coc_return(annual_cash_flow, down_payment) ==
    IF down_payment <= 0 THEN 0
    ELSE DivFix(annual_cash_flow, down_payment)

\* analyze_scenarios with the rent multipliers of low and high exchanged
analyze_scenarios_swapped(base_rent, base_expenses, scenario_type) ==
    IF scenario_type = "low"
    THEN [rent |-> (base_rent * 110) \div 100,
          expenses |-> (base_expenses * 110) \div 100,
          vacancy_rate |-> 800, scenario_type |-> scenario_type]
    ELSE IF scenario_type = "mid"
    THEN [rent |-> base_rent,
          expenses |-> base_expenses,
          vacancy_rate |-> 500, scenario_type |-> scenario_type]
    ELSE [rent |-> (base_rent * 90) \div 100,
          expenses |-> (base_expenses * 90) \div 100,
          vacancy_rate |-> 300, scenario_type |-> scenario_type]

analyze_scenarios(base_rent, base_expenses, scenario_type) ==
    IF scenario_type = "low"
    THEN [rent |-> (base_rent * 90) \div 100,
          expenses |-> (base_expenses * 110) \div 100,
          vacancy_rate |-> 800, scenario_type |-> scenario_type]
    ELSE IF scenario_type = "mid"
    THEN [rent |-> base_rent,
          expenses |-> base_expenses,
          vacancy_rate |-> 500, scenario_type |-> scenario_type]
    ELSE IF scenario_type = "high"
    THEN [rent |-> (base_rent * 110) \div 100,
          expenses |-> (base_expenses * 90) \div 100,
          vacancy_rate |-> 300, scenario_type |-> scenario_type]
    ELSE Raised("Invalid scenario type")

\* a pass of the scenario loop that leaves the mortgage payment out of the
\* scenario's cash flow
scenario_entry_unfinanced(cash_flow, opex, mortgage_details, scenario_type) ==
    LET scenario_rent == analyze_scenarios(cash_flow.monthly_rent,
                                           cash_flow.monthly_expenses, scenario_type)
        scenario_cash_flow == calculate_cash_flow(scenario_rent.rent, opex, 0)
    IN  [rent |-> scenario_rent.rent,
         expenses |-> scenario_rent.expenses,
         cash_flow |-> scenario_cash_flow,
         coc_return |-> calculate_coc_return(scenario_cash_flow.annual_cash_flow,
                                             mortgage_details.down_payment)]

\* one pass of the scenario loop of underwrite_property
scenario_entry(cash_flow, opex, mortgage_details, scenario_type) ==
    LET scenario_rent == analyze_scenarios(cash_flow.monthly_rent,
                                           cash_flow.monthly_expenses, scenario_type)
        scenario_cash_flow == calculate_cash_flow(scenario_rent.rent, opex,
                                                  mortgage_details.monthly_payment)
        scenario_coc == calculate_coc_return(scenario_cash_flow.annual_cash_flow,
                                             mortgage_details.down_payment)
    IN  [rent |-> scenario_rent.rent,
         expenses |-> scenario_rent.expenses,
         cash_flow |-> scenario_cash_flow,
         coc_return |-> scenario_coc]

\* roi is in 1/100; Inf stands for float('inf').  The description strings
\* (formatted amounts) are presentation only and are left out.
rental_rate_opportunity_zero_roi(cash_flow) ==
    LET current_rent == cash_flow.monthly_rent
        market_rent == (current_rent * 110) \div 100
        rent_increase == market_rent - current_rent
    IN  IF rent_increase > 0
        THEN << [category |-> "Revenue", title |-> "Rental Rate Optimization",
                 investment |-> 0, annual_benefit |-> rent_increase * 12,
                 roi |-> 0,
                 implementation_time |-> "Immediate", priority |-> "High",
                 risk_level |-> "Low"] >>
        ELSE << >>

\* lines 246-262: the rental-rate opportunity, or nothing
rental_rate_opportunity(cash_flow) ==
    LET current_rent == cash_flow.monthly_rent
        market_rent == (current_rent * 110) \div 100
        rent_increase == market_rent - current_rent
    IN  IF rent_increase > 0
        THEN << [category |-> "Revenue", title |-> "Rental Rate Optimization",
                 investment |-> 0, annual_benefit |-> rent_increase * 12,
                 roi |-> IF rent_increase > 0 THEN Inf ELSE 0,
                 implementation_time |-> "Immediate", priority |-> "High",
                 risk_level |-> "Low"] >>
        ELSE << >>

self_management_opportunity_unguarded(cash_flow) ==
    LET current_management == cash_flow.expense_breakdown.management
    IN  << [category |-> "Expense", title |-> "Self-Management",
            investment |-> 0, annual_benefit |-> current_management * 12,
            roi |-> Inf,
            implementation_time |-> "Immediate", priority |-> "High",
            risk_level |-> "Medium"] >>

\* lines 264-278: the self-management opportunity, or nothing
self_management_opportunity(cash_flow) ==
    LET current_management == cash_flow.expense_breakdown.management
    IN  IF current_management > 0
        THEN << [category |-> "Expense", title |-> "Self-Management",
                 investment |-> 0, annual_benefit |-> current_management * 12,
                 roi |-> Inf,
                 implementation_time |-> "Immediate", priority |-> "High",
                 risk_level |-> "Medium"] >>
        ELSE << >>

\* lines 280-322: the three improvements; roi in hundredths
improvement_opportunities ==
    << [category |-> "Improvement", title |-> "Energy Efficiency",
        investment |-> 500 * Cents, annual_benefit |-> 50 * Cents * 12,
        roi |-> (50 * Cents * 12 * 100) \div (500 * Cents),
        implementation_time |-> "1 month", priority |-> "Medium",
        risk_level |-> "Low"],
       [category |-> "Improvement", title |-> "Curb Appeal Enhancement",
        investment |-> 2000 * Cents, annual_benefit |-> 100 * Cents * 12,
        roi |-> (100 * Cents * 12 * 100) \div (2000 * Cents),
        implementation_time |-> "2 months", priority |-> "Medium",
        risk_level |-> "Low"],
       [category |-> "Improvement", title |-> "Kitchen Updates",
        investment |-> 5000 * Cents, annual_benefit |-> 150 * Cents * 12,
        roi |-> (150 * Cents * 12 * 100) \div (5000 * Cents),
        implementation_time |-> "3 months", priority |-> "Low",
        risk_level |-> "Medium"] >>

generate_optimization_opportunities(property_data, cash_flow) ==
    rental_rate_opportunity(cash_flow) \o self_management_opportunity(cash_flow)
        \o improvement_opportunities

\* the strategy _generate_mitigation_strategies appends for one factor,
\* << >> when no branch matches.  Each factor is one of the fixed strings of
\* assess_risk, none containing another, so "x in factor" is equality.
mitigation_for(factor) ==
    IF factor = "Negative cash flow"
    THEN << "Implement optimization strategies to improve cash flow" >>
    ELSE IF factor = "Low CoC return"
    THEN << "Consider alternative properties or financing options" >>
    ELSE IF factor = "High days on market"
    THEN << "Conduct thorough market analysis and price optimization" >>
    ELSE IF factor = "Older property"
    THEN << "Budget for increased maintenance and potential renovations" >>
    ELSE << >>

RECURSIVE generate_mitigation_strategies(_)
generate_mitigation_strategies(risk_factors) ==
    IF risk_factors = << >> THEN << >>
    ELSE mitigation_for(Head(risk_factors))
         \o generate_mitigation_strategies(Tail(risk_factors))

\* the four rule groups of assess_risk: <<factors appended, points added>>
market_risk(days_on_market) ==
    IF days_on_market > 90 THEN << <<"High days on market">>, 2 >>
    ELSE IF days_on_market > 60 THEN << <<"Moderate days on market">>, 1 >>
    ELSE << << >>, 0 >>

\* the cash flow group adding 2 for a negative cash flow
cash_flow_risk_mild(monthly_cash_flow) ==
    IF monthly_cash_flow < 0 THEN << <<"Negative cash flow">>, 2 >>
    ELSE IF monthly_cash_flow < 200 * Cents THEN << <<"Low cash flow">>, 1 >>
    ELSE << << >>, 0 >>

cash_flow_risk(monthly_cash_flow) ==
    IF monthly_cash_flow < 0 THEN << <<"Negative cash flow">>, 3 >>
    ELSE IF monthly_cash_flow < 200 * Cents THEN << <<"Low cash flow">>, 1 >>
    ELSE << << >>, 0 >>

coc_risk(coc_return) ==
    IF coc_return < 50000 THEN << <<"Low CoC return">>, 2 >>
    ELSE IF coc_return < 80000 THEN << <<"Moderate CoC return">>, 1 >>
    ELSE << << >>, 0 >>

age_risk(year_built) ==
    LET property_age == current_year - year_built
    IN  IF property_age > 30 THEN << <<"Older property">>, 1 >>
        ELSE << << >>, 0 >>

\* the risk level with High from a score of 4
risk_level_of_four(risk_score) ==
    IF risk_score >= 4 THEN "High"
    ELSE IF risk_score >= 3 THEN "Medium"
    ELSE "Low"

risk_level_of(risk_score) ==
    IF risk_score >= 5 THEN "High"
    ELSE IF risk_score >= 3 THEN "Medium"
    ELSE "Low"

\* assess_risk leaving the later groups out once the cash flow is negative
assess_risk_early_exit(property_data, cash_flow, coc_return) ==
    LET m == market_risk(property_data.days_on_market)
        c == cash_flow_risk(cash_flow.monthly_cash_flow)
        stop == cash_flow.monthly_cash_flow < 0
        r == IF stop THEN << << >>, 0 >> ELSE coc_risk(coc_return)
        a == IF stop THEN << << >>, 0 >> ELSE age_risk(property_data.year_built)
        risk_factors == m[1] \o c[1] \o r[1] \o a[1]
        risk_score == m[2] + c[2] + r[2] + a[2]
    IN  [risk_score |-> risk_score,
         risk_level |-> risk_level_of(risk_score),
         risk_factors |-> risk_factors,
         mitigation_strategies |-> generate_mitigation_strategies(risk_factors)]

assess_risk(property_data, cash_flow, coc_return) ==
    LET m == market_risk(property_data.days_on_market)
        c == cash_flow_risk(cash_flow.monthly_cash_flow)
        r == coc_risk(coc_return)
        a == age_risk(property_data.year_built)
        risk_factors == m[1] \o c[1] \o r[1] \o a[1]
        risk_score == m[2] + c[2] + r[2] + a[2]
    IN  [risk_score |-> risk_score,
         risk_level |-> risk_level_of(risk_score),
         risk_factors |-> risk_factors,
         mitigation_strategies |-> generate_mitigation_strategies(risk_factors)]

\* generate_recommendation testing the risk level before the OOP requirement
generate_recommendation_risk_first(coc_return, risk_assessment, oop_requirement, total_oop) ==
    IF risk_assessment.risk_level = "High" THEN "PASS - High risk level"
    ELSE IF total_oop > oop_requirement THEN "PASS - Exceeds OOP requirement"
    ELSE IF coc_return >= 90000 THEN "STRONG BUY - Excellent CoC return"
    ELSE IF coc_return >= 70000 THEN "BUY - Good CoC return"
    ELSE IF coc_return >= 50000 THEN "HOLD - Acceptable CoC return"
    ELSE "PASS - Insufficient CoC return"

\* generate_recommendation with the return thresholds written >
generate_recommendation_strict(coc_return, risk_assessment, oop_requirement, total_oop) ==
    IF total_oop > oop_requirement THEN "PASS - Exceeds OOP requirement"
    ELSE IF risk_assessment.risk_level = "High" THEN "PASS - High risk level"
    ELSE IF coc_return > 90000 THEN "STRONG BUY - Excellent CoC return"
    ELSE IF coc_return > 70000 THEN "BUY - Good CoC return"
    ELSE IF coc_return > 50000 THEN "HOLD - Acceptable CoC return"
    ELSE "PASS - Insufficient CoC return"

generate_recommendation(coc_return, risk_assessment, oop_requirement, total_oop) ==
    IF total_oop > oop_requirement THEN "PASS - Exceeds OOP requirement"
    ELSE IF risk_assessment.risk_level = "High" THEN "PASS - High risk level"
    ELSE IF coc_return >= 90000 THEN "STRONG BUY - Excellent CoC return"
    ELSE IF coc_return >= 70000 THEN "BUY - Good CoC return"
    ELSE IF coc_return >= 50000 THEN "HOLD - Acceptable CoC return"
    ELSE "PASS - Insufficient CoC return"

(* calculate_mortgage in binary floating point.  The amounts above are exact
   integers of cents, which cannot show what the rounding of each float
   operation does; here every operation rounds its exact result to
   MantissaBits significant bits, ties to even, as IEEE 754 does with 53.
   Amounts are integers of 1/32 of the currency unit, fractions are n/32. *)

\* the nonnegative integer x rounded to MantissaBits significant bits
RoundNearest(x) ==
    LET e == CHOOSE k \in 0..16 :
                 /\ x < 2 ^ (MantissaBits + k)
                 /\ k = 0 \/ x >= 2 ^ (MantissaBits + k - 1)
        q == x \div (2 ^ e)
        r == x % (2 ^ e)
        up == \/ 2 * r > 2 ^ e
              \/ 2 * r = 2 ^ e /\ q % 2 = 1
    IN  IF e = 0 THEN x ELSE (IF up THEN q + 1 ELSE q) * (2 ^ e)

FloatAdd(a, b) == RoundNearest(a + b)
FloatSub(a, b) == RoundNearest(a - b)

\* lines 102, 105, 121 and 128 for a purchase price of whole currency units
calculate_mortgage_binary(purchase_price, down_payment_pct, closing_costs_pct) ==
    LET price == purchase_price * 32
        down_payment == RoundNearest(purchase_price * down_payment_pct)
        loan_amount == FloatSub(price, down_payment)
        closing_costs == RoundNearest(purchase_price * closing_costs_pct)
    IN  [purchase_price |-> price,
         down_payment |-> down_payment,
         loan_amount |-> loan_amount,
         closing_costs |-> closing_costs,
         total_oop |-> FloatAdd(down_payment, closing_costs)]

----------------------------------------------------------------------------
----------------------------------------------------------------------------
(* FinancialCalculator *)

\* the attributes FinancialCalculator.__init__ takes from config
FinancialCalculator ==
    [down_payment_pct |-> 2000, interest_rate |-> 650, loan_term |-> 30,
     appreciation_rate |-> 300, tax_rate |-> 2500, depreciation_rate |-> 275,
     property_management_fee |-> 800, insurance_rate |-> 50,
     maintenance_rate |-> 100, vacancy_rate |-> 500]

\* dict.get(key, 0)
Get(d, key) == IF key \in DOMAIN d THEN d[key] ELSE 0

\* the value under key is one arithmetic raises TypeError on (None, a string);
\* property_data names such keys in its entry "non_numeric"
NonNumeric(d, key) == "non_numeric" \in DOMAIN d /\ key \in d.non_numeric

\* calculate_monthly_mortgage_payment without the branch for a zero monthly rate
calculate_monthly_mortgage_payment_no_zero_branch(loan_amount) ==
    IF loan_amount <= 0 \/ calculator.interest_rate = 0 THEN 0
    ELSE monthly_payment_of(loan_amount,
                            MulRate(FixScale, calculator.interest_rate) \div 12,
                            calculator.loan_term * 12)

calculate_monthly_mortgage_payment(loan_amount) ==
    IF loan_amount <= 0 THEN 0
    ELSE LET monthly_rate == MulRate(FixScale, calculator.interest_rate) \div 12
             num_payments == calculator.loan_term * 12
         IN  monthly_payment_of(loan_amount, monthly_rate, num_payments)

\* the body of the loop of calculate_loan_amortization, months times; acc holds
\* monthly_payment and the running total_interest, total_principal and
\* remaining_balance under the keys of the returned dictionary
RECURSIVE amortize(_, _, _)
amortize(acc, monthly_rate, months) ==
    IF months = 0 THEN acc
    ELSE amortize(
             [monthly_payment |-> acc.monthly_payment,
              annual_interest |->
                  acc.annual_interest + MulFix(acc.remaining_balance, monthly_rate),
              annual_principal |->
                  acc.annual_principal
                  + (acc.monthly_payment - MulFix(acc.remaining_balance, monthly_rate)),
              remaining_balance |->
                  acc.remaining_balance
                  - (acc.monthly_payment - MulFix(acc.remaining_balance, monthly_rate))],
             monthly_rate, months - 1)

\* calculate_loan_amortization looping over all num_years * 12 months
calculate_loan_amortization_all_years(loan_amount, num_years) ==
    amortize([monthly_payment |-> calculate_monthly_mortgage_payment(loan_amount),
              annual_interest |-> 0, annual_principal |-> 0,
              remaining_balance |-> loan_amount],
             MulRate(FixScale, calculator.interest_rate) \div 12, num_years * 12)

calculate_loan_amortization(loan_amount, num_years) ==
    LET monthly_rate == MulRate(FixScale, calculator.interest_rate) \div 12
        stop == IF num_years * 12 + 1 < 13 THEN num_years * 12 + 1 ELSE 13
        months == IF stop > 1 THEN stop - 1 ELSE 0
    IN  amortize([monthly_payment |-> calculate_monthly_mortgage_payment(loan_amount),
                  annual_interest |-> 0, annual_principal |-> 0,
                  remaining_balance |-> loan_amount],
                 monthly_rate, months)

calculate_annual_expenses(property_data) ==
    LET purchase_price == Get(property_data, "price")
        monthly_rent == Get(property_data, "estimated_rental_income")
        property_management == MulRate(monthly_rent * 12, calculator.property_management_fee)
        insurance == MulRate(purchase_price, calculator.insurance_rate)
        maintenance == MulRate(purchase_price, calculator.maintenance_rate)
        vacancy_loss == MulRate(monthly_rent * 12, calculator.vacancy_rate)
        property_taxes == MulRate(purchase_price, 120)
        utilities == 200 * 12 * Cents
        hoa_fees == 300 * 12 * Cents
    IN  property_management + insurance + maintenance + vacancy_loss +
        property_taxes + utilities + hoa_fees

\* calculate_cash_on_cash_return with the annual cash flow negated
calculate_cash_on_cash_return_negated(property_data) ==
    LET purchase_price == Get(property_data, "price")
        down_payment == MulRate(purchase_price, calculator.down_payment_pct)
        loan_amount == purchase_price - down_payment
        annual_rent == Get(property_data, "estimated_rental_income") * 12
        annual_expenses == calculate_annual_expenses(property_data)
        amortization == calculate_loan_amortization(loan_amount, 1)
        annual_cash_flow == annual_expenses + amortization.monthly_payment * 12 - annual_rent
    IN  IF NonNumeric(property_data, "price")
           \/ NonNumeric(property_data, "estimated_rental_income")
        THEN 0
        ELSE IF down_payment > 0 THEN DivRound4(annual_cash_flow, down_payment) ELSE 0

\* the percentage, in hundredths of a percent
calculate_cash_on_cash_return(property_data) ==
    LET purchase_price == Get(property_data, "price")
        down_payment == MulRate(purchase_price, calculator.down_payment_pct)
        loan_amount == purchase_price - down_payment
        monthly_rent == Get(property_data, "estimated_rental_income")
        annual_rent == monthly_rent * 12
        annual_expenses == calculate_annual_expenses(property_data)
        amortization == calculate_loan_amortization(loan_amount, 1)
        annual_mortgage_payment == amortization.monthly_payment * 12
        annual_cash_flow == annual_rent - annual_expenses - annual_mortgage_payment
    IN  IF NonNumeric(property_data, "price")
           \/ NonNumeric(property_data, "estimated_rental_income")
        THEN 0
        ELSE IF down_payment > 0 THEN DivRound4(annual_cash_flow, down_payment) ELSE 0

\* calculate_appreciation_return with a fixed appreciation of 3000 a year
calculate_appreciation_return_flat(property_data) ==
    LET down_payment == MulRate(Get(property_data, "price"), calculator.down_payment_pct)
    IN  IF NonNumeric(property_data, "price") THEN 0
        ELSE IF down_payment > 0 THEN DivRound4(3000 * Cents, down_payment) ELSE 0

calculate_appreciation_return(property_data) ==
    LET purchase_price == Get(property_data, "price")
        annual_appreciation == MulRate(purchase_price, calculator.appreciation_rate)
        down_payment == MulRate(purchase_price, calculator.down_payment_pct)
    IN  IF NonNumeric(property_data, "price") THEN 0
        ELSE IF down_payment > 0 THEN DivRound4(annual_appreciation, down_payment) ELSE 0

calculate_tax_savings_return(property_data) ==
    LET purchase_price == Get(property_data, "price")
        down_payment == MulRate(purchase_price, calculator.down_payment_pct)
        depreciable_value == MulRate(purchase_price, 8000)
        annual_depreciation == (depreciable_value * 10) \div 275
        annual_tax_savings == MulRate(annual_depreciation, calculator.tax_rate)
    IN  IF NonNumeric(property_data, "price") THEN 0
        ELSE IF down_payment > 0 THEN DivRound4(annual_tax_savings, down_payment) ELSE 0

calculate_principal_paydown_return(property_data) ==
    LET purchase_price == Get(property_data, "price")
        down_payment == MulRate(purchase_price, calculator.down_payment_pct)
        loan_amount == purchase_price - down_payment
        amortization == calculate_loan_amortization(loan_amount, 1)
        annual_principal_paydown == amortization.annual_principal
    IN  IF NonNumeric(property_data, "price") THEN 0
        ELSE IF down_payment > 0 THEN DivRound4(annual_principal_paydown, down_payment) ELSE 0

\* the dictionary of the except branch of calculate_total_return
ZeroReturns ==
    [cash_on_cash_return |-> 0, appreciation_return |-> 0, tax_savings_return |-> 0,
     principal_paydown_return |-> 0, total_return |-> 0, monthly_cash_flow |-> 0,
     annual_cash_flow |-> 0, down_payment |-> 0, loan_amount |-> 0,
     monthly_mortgage |-> 0, annual_expenses |-> 0, annual_rent |-> 0]

\* calculate_total_return leaving the principal paydown out of the total
calculate_total_return_three(property_data) ==
    LET cash_on_cash == calculate_cash_on_cash_return(property_data)
        appreciation == calculate_appreciation_return(property_data)
        tax_savings == calculate_tax_savings_return(property_data)
        principal_paydown == calculate_principal_paydown_return(property_data)
        purchase_price == Get(property_data, "price")
        down_payment == MulRate(purchase_price, calculator.down_payment_pct)
        monthly_rent == Get(property_data, "estimated_rental_income")
        loan_amount == purchase_price - down_payment
        monthly_mortgage == calculate_loan_amortization(loan_amount, 1).monthly_payment
        annual_expenses == calculate_annual_expenses(property_data)
        monthly_cash_flow == monthly_rent - annual_expenses \div 12 - monthly_mortgage
    IN  IF NonNumeric(property_data, "price")
           \/ NonNumeric(property_data, "estimated_rental_income")
        THEN ZeroReturns
        ELSE [cash_on_cash_return |-> cash_on_cash,
              appreciation_return |-> appreciation,
              tax_savings_return |-> tax_savings,
              principal_paydown_return |-> principal_paydown,
              total_return |-> cash_on_cash + appreciation + tax_savings,
              monthly_cash_flow |-> monthly_cash_flow,
              annual_cash_flow |-> monthly_cash_flow * 12,
              down_payment |-> down_payment,
              loan_amount |-> loan_amount,
              monthly_mortgage |-> monthly_mortgage,
              annual_expenses |-> annual_expenses,
              annual_rent |-> monthly_rent * 12]

\* calculate_total_return without its try/except: the TypeError reaches the caller
calculate_total_return_uncaught(property_data) ==
    IF NonNumeric(property_data, "price")
       \/ NonNumeric(property_data, "estimated_rental_income")
    THEN Raised("TypeError")
    ELSE calculate_total_return_three(property_data)

calculate_total_return(property_data) ==
    LET cash_on_cash == calculate_cash_on_cash_return(property_data)
        appreciation == calculate_appreciation_return(property_data)
        tax_savings == calculate_tax_savings_return(property_data)
        principal_paydown == calculate_principal_paydown_return(property_data)
        total_return == cash_on_cash + appreciation + tax_savings + principal_paydown
        purchase_price == Get(property_data, "price")
        down_payment == MulRate(purchase_price, calculator.down_payment_pct)
        monthly_rent == Get(property_data, "estimated_rental_income")
        annual_rent == monthly_rent * 12
        loan_amount == purchase_price - down_payment
        amortization == calculate_loan_amortization(loan_amount, 1)
        monthly_mortgage == amortization.monthly_payment
        annual_expenses == calculate_annual_expenses(property_data)
        monthly_expenses == annual_expenses \div 12
        monthly_cash_flow == monthly_rent - monthly_expenses - monthly_mortgage
    IN  IF NonNumeric(property_data, "price")
           \/ NonNumeric(property_data, "estimated_rental_income")
        THEN ZeroReturns
        ELSE [cash_on_cash_return |-> cash_on_cash,
              appreciation_return |-> appreciation,
              tax_savings_return |-> tax_savings,
              principal_paydown_return |-> principal_paydown,
              total_return |-> total_return,
              monthly_cash_flow |-> monthly_cash_flow,
              annual_cash_flow |-> monthly_cash_flow * 12,
              down_payment |-> down_payment,
              loan_amount |-> loan_amount,
              monthly_mortgage |-> monthly_mortgage,
              annual_expenses |-> annual_expenses,
              annual_rent |-> annual_rent]

----------------------------------------------------------------------------
(* PropertySourcer *)

\* what underwrite_property(property_data, oop_requirement) gives when it runs
\* from entry to return with the assumptions and the year of the current state
underwrite_property(property_data, oop_requirement) ==
    LET mortgage_details == calculate_mortgage(property_data.purchase_price,
                                               financial_data.down_payment_pct,
                                               financial_data.interest_rate)
        opex == calculate_operating_expenses(property_data.purchase_price,
                                             property_data.estimated_rent)
        cash_flow == calculate_cash_flow(property_data.estimated_rent, opex,
                                         mortgage_details.monthly_payment)
        coc_return == calculate_coc_return(cash_flow.annual_cash_flow,
                                           mortgage_details.down_payment)
        scenarios == [t \in {"low", "mid", "high"} |->
                         scenario_entry(cash_flow, opex, mortgage_details, t)]
        risk_assessment == assess_risk(property_data, cash_flow, coc_return)
    IN  IF IsRaised(mortgage_details) THEN mortgage_details
        ELSE [property_data |-> property_data,
              financial_data |-> financial_data,
              mortgage_details |-> mortgage_details,
              cash_flow_analysis |-> cash_flow,
              coc_return |-> coc_return,
              roi |-> coc_return,
              scenarios |-> scenarios,
              optimization_opportunities |->
                  generate_optimization_opportunities(property_data, cash_flow),
              risk_assessment |-> risk_assessment,
              recommendation |->
                  generate_recommendation(coc_return, risk_assessment, oop_requirement,
                                          mortgage_details.total_oop)]

Template(purchase_price, year_built, estimated_rent, days_on_market) ==
    [purchase_price |-> purchase_price * Cents, estimated_rent |-> estimated_rent * Cents,
     days_on_market |-> days_on_market, year_built |-> year_built]

property_templates ==
    << Template(325000, 2015, 3200, 45), Template(420000, 2018, 3500, 32),
       Template(285000, 2012, 2400, 28), Template(450000, 2020, 3800, 15),
       Template(380000, 2016, 3000, 22), Template(295000, 2014, 2600, 38),
       Template(350000, 2017, 2800, 25), Template(310000, 2013, 2700, 41) >>

\* the templates within max_price whose return, underwritten with the default
\* oop_requirement, is at least min_coc; the first underwriting error leaves
\* the method
generate_houston_properties(max_price, min_coc) ==
    LET candidates == SelectSeq(property_templates,
                                LAMBDA t : t.purchase_price <= max_price)
        first == underwrite_property(candidates[1], Inf)
    IN  IF candidates # << >> /\ IsRaised(first) THEN first
        ELSE Returned(SelectSeq(candidates,
                 LAMBDA t : underwrite_property(t, Inf).coc_return >= min_coc))

\* results.sort(key = coc_return, reverse = True): a stable sort, entries of
\* equal return keep their order
sort_by_coc_unsorted(results) == results

sort_by_coc(results) ==
    LET n == Len(results)
        coc(i) == results[i].underwriting_result.coc_return
        rank(i) == Cardinality({j \in 1..n : coc(j) > coc(i)})
                   + Cardinality({j \in 1..n : j < i /\ coc(j) = coc(i)}) + 1
    IN  [k \in 1..n |-> results[CHOOSE i \in 1..n : rank(i) = k]]

source_properties_for_scenario(scenario) ==
    LET generated == generate_houston_properties(scenario.max_purchase_price,
                                                 scenario.min_coc_return)
        properties == generated.value
        analysed == [i \in 1..Len(properties) |->
                        [property_data |-> properties[i],
                         underwriting_result |->
                             underwrite_property(properties[i], scenario.max_oop),
                         meets_requirements |-> TRUE]]
        results == SelectSeq(analysed,
                       LAMBDA e :
                           /\ e.underwriting_result.mortgage_details.total_oop
                                 <= scenario.max_oop
                           /\ e.underwriting_result.coc_return >= scenario.min_coc_return)
    IN  IF IsRaised(generated) THEN generated ELSE Returned(sort_by_coc(results))

\* properties[:3] without the limit
top_properties_all(properties) == properties

\* properties[:3]
top_properties(properties) ==
    SubSeq(properties, 1, IF Len(properties) < 3 THEN Len(properties) ELSE 3)

\* the recommendation analyze_scenario builds from one retained result; the
\* purchase price stands for the address
recommendation_of(prop) ==
    LET result == prop.underwriting_result
    IN  [purchase_price |-> result.property_data.purchase_price,
         down_payment |-> result.mortgage_details.down_payment,
         total_oop |-> result.mortgage_details.total_oop,
         coc_return |-> result.coc_return,
         monthly_cash_flow |-> result.cash_flow_analysis.monthly_cash_flow,
         recommendation |-> result.recommendation,
         risk_level |-> result.risk_assessment.risk_level,
         optimization_opportunities |-> Len(result.optimization_opportunities),
         scenarios |-> result.scenarios]

\* sum(...) over the first n entries of a list of figures
RECURSIVE sum_of(_, _)
sum_of(figures, n) ==
    IF n = 0 THEN 0 ELSE sum_of(figures, n - 1) + figures[n]

\* lines 200-243: what analyze_scenario makes of the ranked results
scenario_analysis(properties) ==
    LET n == Len(properties)
        top == top_properties(properties)
        recommendations == [i \in 1..Len(top) |-> recommendation_of(top[i])]
        total_oop == [i \in 1..n |->
                         properties[i].underwriting_result.mortgage_details.total_oop]
        coc == [i \in 1..n |-> properties[i].underwriting_result.coc_return]
        monthly_cash_flow ==
            [i \in 1..n |->
                properties[i].underwriting_result.cash_flow_analysis.monthly_cash_flow]
    IN  IF properties = << >>
        THEN [properties_found |-> 0,
              recommendations |-> << >>,
              summary |-> [none_found |-> TRUE]]
        ELSE [properties_found |-> n,
              recommendations |-> recommendations,
              summary |->
                 [total_investment |-> sum_of(total_oop, n),
                  average_coc_return |-> sum_of(coc, n) \div n,
                  average_monthly_cash_flow |-> sum_of(monthly_cash_flow, n) \div n,
                  top_recommendation |-> recommendations[1]]]

analyze_scenario(scenario) ==
    LET sourced == source_properties_for_scenario(scenario)
    IN  IF IsRaised(sourced) THEN sourced ELSE scenario_analysis(sourced.value)

----------------------------------------------------------------------------
(* DataProcessor (data_processor.py) *)

\* dict.get(key, default)
GetOr(d, key, default) == IF key \in DOMAIN d THEN d[key] ELSE default

\* lines 30-58: the row the loop body builds for one property; for a
\* dictionary neither calculate_total_return nor dict.get raises, so the
\* except branch of the loop is not entered
processed_prop(prop) ==
    [address |-> GetOr(prop, "address", ""),
     price |-> GetOr(prop, "price", 0),
     sqft |-> GetOr(prop, "sqft", 0),
     beds |-> GetOr(prop, "beds", 0),
     baths |-> GetOr(prop, "baths", 0),
     year_built |-> GetOr(prop, "year_built", 0),
     property_type |-> GetOr(prop, "property_type", ""),
     estimated_rental_income |-> GetOr(prop, "estimated_rental_income", 0),
     source |-> GetOr(prop, "source", ""),
     listing_id |-> GetOr(prop, "listing_id", "")]
        @@ calculate_total_return(prop)

\* df.sort_values('total_return', ascending=False) with the default sort kind,
\* which is not stable: every arrangement of the rows in non-increasing order
\* of total_return is a possible outcome
sort_values_descending(rows) ==
    LET n == Len(rows)
        orders == {p \in Permutations(1..n) :
                      \A i \in 1..(n - 1) :
                          rows[p[i]].total_return >= rows[p[i + 1]].total_return}
    IN  {[i \in 1..n |-> rows[p[i]]] : p \in orders}

\* the outcomes of process_properties(properties).  pd.DataFrame([]) has no
\* columns, so sort_values('total_return') raises KeyError for an empty list
\* of rows; nothing in process_properties catches it.
process_properties(properties) ==
    LET processed_properties ==
            [i \in 1..Len(properties) |-> processed_prop(properties[i])]
    IN  IF processed_properties = << >>
        THEN {Raised("KeyError: 'total_return'")}
        ELSE {Returned(df) : df \in sort_values_descending(processed_properties)}

----------------------------------------------------------------------------
(* Inputs the callers draw from *)

Prices == {0, 100000 * Cents, 325000 * Cents}
Rents == {0, 3200 * Cents} \cup {(1780 + 30 * k) * Cents : k \in 0..MaxRentSteps}
DaysOnMarket == {45, 61, 91}
YearsBuilt == {1995, 2015}
Years == 2025 .. (2025 + MaxYearTicks)

\* PropertyData, the fields the engine reads
PropertyRecords ==
    [purchase_price : Prices, estimated_rent : Rents,
     days_on_market : DaysOnMarket, year_built : YearsBuilt]

\* oop_requirement: left out by the caller (float('inf')) or supplied
OopRequirements == {Inf, 20000 * Cents, 23000 * Cents}

\* values a caller overrides the engine's assumptions with
DownPaymentPcts == {1500, 2000, 2500}
InterestRates == {650, 2000, 2001}

NoOutcome == [kind |-> "none"]
NoRet == [op |-> "none"]
NoFrame == [none |-> TRUE]
NoSourcing == [stage |-> "idle"]

----------------------------------------------------------------------------
(* State machine *)

\* UnderwritingEngine(): __init__ builds the two default objects
Init ==
    /\ financial_data = FinancialData
    /\ self_opex = OperatingExpenses
    /\ current_year = 2025
    /\ pc = "idle"
    /\ frame = NoFrame
    /\ outcome = NoOutcome
    /\ ret = NoRet
    /\ calculator = FinancialCalculator
    /\ sourcing = NoSourcing

\* the caller holds no value of an earlier call
Fresh == pc = "idle" /\ outcome = NoOutcome /\ ret = NoRet /\ sourcing = NoSourcing

\* the calendar year changes
Tick ==
    /\ current_year < 2025 + MaxYearTicks
    /\ current_year' = current_year + 1
    /\ UNCHANGED <<sourcing, calculator, financial_data, self_opex, pc, frame, outcome, ret>>

\* engine.financial_data.<field> = value, between calls.  A returned
\* UnderwritingResult holds the same FinancialData object (line 500), so the
\* assignment shows through result.financial_data.
SetAssumption(field, value) ==
    /\ pc = "idle"
    /\ sourcing = NoSourcing
    /\ financial_data[field] # value
    /\ financial_data' = [financial_data EXCEPT ![field] = value]
    /\ outcome' = IF outcome.kind = "returned"
                  THEN [outcome EXCEPT !.value.financial_data = financial_data']
                  ELSE outcome
    /\ UNCHANGED <<sourcing, calculator, self_opex, current_year, pc, frame, ret>>

SetDownPaymentPct == \E v \in DownPaymentPcts : SetAssumption("down_payment_pct", v)
SetInterestRate == \E v \in InterestRates : SetAssumption("interest_rate", v)

\* the caller drops the value the last call gave it
Discard ==
    /\ pc = "idle"
    /\ outcome # NoOutcome \/ ret # NoRet
    /\ outcome' = NoOutcome
    /\ ret' = NoRet
    /\ frame' = NoFrame
    /\ UNCHANGED <<sourcing, calculator, financial_data, self_opex, current_year, pc>>

\* underwrite_property(property_data, oop_requirement) is entered
Call ==
    /\ Fresh
    /\ \E property_data \in PropertyRecords, oop_requirement \in OopRequirements :
          frame' = [property_data |-> property_data, oop_requirement |-> oop_requirement]
    /\ pc' = "calculate_mortgage"
    /\ UNCHANGED <<sourcing, calculator, financial_data, self_opex, current_year, outcome, ret>>

\* an assignment to the local variable name
Assign(name, value) == frame' = (name :> value) @@ frame

\* lines 421-425; a ValueError of validate_inputs is not caught anywhere in
\* underwrite_property and reaches the caller
StepMortgage ==
    /\ pc = "calculate_mortgage"
    /\ LET v == calculate_mortgage(frame.property_data.purchase_price,
                                   financial_data.down_payment_pct,
                                   financial_data.interest_rate)
       IN  IF IsRaised(v)
           THEN /\ outcome' = [kind |-> "raised", message |-> v.raised]
                /\ pc' = "idle"
                /\ UNCHANGED frame
           ELSE /\ Assign("mortgage_details", v)
                /\ pc' = "calculate_operating_expenses"
                /\ UNCHANGED outcome
    /\ UNCHANGED <<sourcing, calculator, financial_data, self_opex, current_year, ret>>

\* lines 428-431 with the expenses written to the engine's own opex object
StepOperatingExpenses_shared ==
    /\ pc = "calculate_operating_expenses"
    /\ Assign("opex", calculate_operating_expenses(frame.property_data.purchase_price,
                                                   frame.property_data.estimated_rent))
    /\ self_opex' = frame'.opex
    /\ pc' = "calculate_cash_flow"
    /\ UNCHANGED <<sourcing, calculator, financial_data, current_year, outcome, ret>>

\* lines 428-431
StepOperatingExpenses ==
    /\ pc = "calculate_operating_expenses"
    /\ Assign("opex", calculate_operating_expenses(frame.property_data.purchase_price,
                                                   frame.property_data.estimated_rent))
    /\ pc' = "calculate_cash_flow"
    /\ UNCHANGED <<sourcing, calculator, financial_data, self_opex, current_year, outcome, ret>>

\* lines 434-438
StepCashFlow ==
    /\ pc = "calculate_cash_flow"
    /\ Assign("cash_flow", calculate_cash_flow(frame.property_data.estimated_rent,
                                               frame.opex,
                                               frame.mortgage_details.monthly_payment))
    /\ pc' = "calculate_coc_return"
    /\ UNCHANGED <<sourcing, calculator, financial_data, self_opex, current_year, outcome, ret>>

\* lines 441-450: coc_return, roi = coc_return, scenarios = {}
StepCocReturn ==
    /\ pc = "calculate_coc_return"
    /\ LET coc_return == calculate_coc_return(frame.cash_flow.annual_cash_flow,
                                              frame.mortgage_details.down_payment)
       IN  frame' = [coc_return |-> coc_return, roi |-> coc_return,
                     scenarios |-> << >>, todo |-> <<"low", "mid", "high">>] @@ frame
    /\ pc' = "scenarios"
    /\ UNCHANGED <<sourcing, calculator, financial_data, self_opex, current_year, outcome, ret>>

\* lines 451-475: one pass of the loop over ['low', 'mid', 'high']
StepScenario ==
    /\ pc = "scenarios"
    /\ frame.todo # << >>
    /\ LET scenario_type == Head(frame.todo)
           entry == scenario_entry(frame.cash_flow, frame.opex,
                                   frame.mortgage_details, scenario_type)
       IN  frame' = [frame EXCEPT !.scenarios = (scenario_type :> entry) @@ @,
                                  !.todo = Tail(@)]
    /\ UNCHANGED <<sourcing, calculator, financial_data, self_opex, current_year, pc, outcome, ret>>

\* lines 478-481, after the loop has ended
StepOptimization ==
    /\ pc = "scenarios"
    /\ frame.todo = << >>
    /\ Assign("optimization_opportunities",
              generate_optimization_opportunities(frame.property_data, frame.cash_flow))
    /\ pc' = "assess_risk"
    /\ UNCHANGED <<sourcing, calculator, financial_data, self_opex, current_year, outcome, ret>>

\* lines 484-488
StepAssessRisk ==
    /\ pc = "assess_risk"
    /\ Assign("risk_assessment",
              assess_risk(frame.property_data, frame.cash_flow, frame.coc_return))
    /\ pc' = "generate_recommendation"
    /\ UNCHANGED <<sourcing, calculator, financial_data, self_opex, current_year, outcome, ret>>

\* lines 491-496
StepRecommendation ==
    /\ pc = "generate_recommendation"
    /\ Assign("recommendation",
              generate_recommendation(frame.coc_return, frame.risk_assessment,
                                      frame.oop_requirement,
                                      frame.mortgage_details.total_oop))
    /\ pc' = "return"
    /\ UNCHANGED <<sourcing, calculator, financial_data, self_opex, current_year, outcome, ret>>

\* lines 498-509: the UnderwritingResult
UnderwritingResult ==
    [property_data |-> frame.property_data,
     financial_data |-> financial_data,
     mortgage_details |-> frame.mortgage_details,
     cash_flow_analysis |-> frame.cash_flow,
     coc_return |-> frame.coc_return,
     roi |-> frame.roi,
     scenarios |-> frame.scenarios,
     optimization_opportunities |-> frame.optimization_opportunities,
     risk_assessment |-> frame.risk_assessment,
     recommendation |-> frame.recommendation]

StepReturn ==
    /\ pc = "return"
    /\ outcome' = [kind |-> "returned", value |-> UnderwritingResult]
    /\ pc' = "idle"
    /\ UNCHANGED <<sourcing, calculator, financial_data, self_opex, current_year, frame, ret>>

\* arguments of the direct calls
MortgagePrices == {-1 * Cents, 0, 1, 100000 * Cents}
MortgageDownPayments == {1999, 2000, 15000}
MortgageRates == {-1, 0, 1, 1999, 2000, 2001}
RiskDays == {60, 61, 90, 91}
RiskCashFlows == {-1, 0, 200 * Cents - 1, 200 * Cents}
RiskCocs == {49999, 50000, 79999, 80000}
RiskYearsBuilt == {1994, 1995}
RecCocs == {49999, 50000, 69999, 70000, 89999, 90000}
RecRiskLevels == {"Low", "Medium", "High"}
RecTotalOops == {23000 * Cents, 74750 * Cents}

CalculatorRates == {0, 650}
CalculatorProperties ==
    [price : Prices, estimated_rental_income : Rents]
        \cup [estimated_rental_income : {1840 * Cents}]
        \cup [price : {100000 * Cents}]
        \cup [price : {-100000 * Cents}, estimated_rental_income : {1840 * Cents}]
        \cup {<< >>}

\* dictionaries with a value that is not a number
FailingProperties ==
    [price : {100000 * Cents}, estimated_rental_income : {1840 * Cents},
     non_numeric : {{"price"}, {"estimated_rental_income"}}]

LoanAmounts == {-1000 * Cents, 0, 80000 * Cents, 260000 * Cents}

\* calculator.calculate_monthly_mortgage_payment(loan_amount)
CallMonthlyMortgagePayment ==
    /\ Fresh
    /\ \E loan_amount \in LoanAmounts :
          ret' = [op |-> "calculate_monthly_mortgage_payment",
                  loan_amount |-> loan_amount,
                  value |-> calculate_monthly_mortgage_payment(loan_amount)]
    /\ UNCHANGED <<sourcing, calculator, financial_data, self_opex, current_year, pc, frame, outcome>>

ListingRecords ==
    {[address |-> "1 Main St", price |-> 100000 * Cents,
      estimated_rental_income |-> 1840 * Cents],
     [address |-> "2 Oak Ave", price |-> 325000 * Cents,
      estimated_rental_income |-> 3200 * Cents],
     [address |-> "3 Elm St", estimated_rental_income |-> 1840 * Cents]}
PropertyLists ==
    UNION {[1..n -> ListingRecords] : n \in 0..MaxProperties}

\* processor.process_properties(properties); the processor's calculator is the
\* calculator of this model
CallProcessProperties ==
    /\ Fresh
    /\ \E properties \in PropertyLists :
          \E value \in process_properties(properties) :
              ret' = [op |-> "process_properties", properties |-> properties,
                      value |-> value]
    /\ UNCHANGED <<sourcing, calculator, financial_data, self_opex, current_year, pc, frame, outcome>>

AmortizationYears == {0, 1, 2, 5}

\* calculator.calculate_loan_amortization(loan_amount, num_years)
CallLoanAmortization ==
    /\ Fresh
    /\ \E loan_amount \in LoanAmounts, num_years \in AmortizationYears :
          ret' = [op |-> "calculate_loan_amortization",
                  loan_amount |-> loan_amount, num_years |-> num_years,
                  value |-> calculate_loan_amortization(loan_amount, num_years)]
    /\ UNCHANGED <<sourcing, calculator, financial_data, self_opex, current_year, pc, frame, outcome>>

\* calculator.calculate_total_return(property_data)
CallTotalReturn ==
    /\ Fresh
    /\ \E property_data \in CalculatorProperties \cup FailingProperties :
          ret' = [op |-> "calculate_total_return",
                  property_data |-> property_data,
                  value |-> calculate_total_return(property_data)]
    /\ UNCHANGED <<sourcing, calculator, financial_data, self_opex, current_year, pc, frame, outcome>>

ClientScenarios ==
    [max_oop : {80000 * Cents, 375000 * Cents},
     max_purchase_price : {250000 * Cents, 330000 * Cents, 500000 * Cents},
     min_coc_return : {-1000000, -200000, 90000}]

\* prices of MantissaBits bits; down payment fractions 7/32, 8/32 and 16/32;
\* closing costs 1/32
BinaryPrices ==
    (2 ^ (MantissaBits - 1) + 32) .. (2 ^ (MantissaBits - 1) + 32 + 2 ^ (MantissaBits - 3))
BinaryDownPayments == {7, 8, 16}

\* engine.calculate_mortgage(purchase_price, down_payment_pct, interest_rate),
\* down payment, loan amount and out-of-pocket total in binary floating point
CallCalculateMortgageBinary ==
    /\ Fresh
    /\ \E price \in BinaryPrices, pct \in BinaryDownPayments :
          ret' = [op |-> "calculate_mortgage_binary",
                  purchase_price |-> price,
                  down_payment_pct |-> pct,
                  value |-> calculate_mortgage_binary(price, pct, 1)]
    /\ UNCHANGED <<sourcing, calculator, financial_data, self_opex, current_year, pc, frame, outcome>>

OptimizationRents == {-100 * Cents, 0, 1840 * Cents}
OptimizationManagement == {-8 * Cents, 0, 14720}

\* engine.generate_optimization_opportunities(property_data, cash_flow); of
\* cash_flow the method reads monthly_rent and expense_breakdown.management
CallOptimizationOpportunities ==
    /\ Fresh
    /\ \E monthly_rent \in OptimizationRents, management \in OptimizationManagement :
          LET cash_flow == [monthly_rent |-> monthly_rent,
                            expense_breakdown |-> [management |-> management]]
          IN  ret' = [op |-> "generate_optimization_opportunities",
                      cash_flow |-> cash_flow,
                      value |-> generate_optimization_opportunities(
                                    Template(100000, 2015, 1840, 45), cash_flow)]
    /\ UNCHANGED <<sourcing, calculator, financial_data, self_opex, current_year, pc, frame, outcome>>

\* sourcer.source_properties_for_scenario(scenario) or
\* sourcer.analyze_scenario(scenario) is entered; the sourcer's engine is the
\* engine of this model
EnterSourcing(method) ==
    /\ Fresh
    /\ \E scenario \in ClientScenarios :
          sourcing' = [stage |-> "generate_houston_properties", method |-> method,
                       scenario |-> scenario, todo |-> property_templates,
                       properties |-> << >>]
    /\ UNCHANGED <<calculator, financial_data, self_opex, current_year, pc, frame,
                   outcome, ret>>

CallSourceProperties == EnterSourcing("source_properties_for_scenario")
CallAnalyzeScenario == EnterSourcing("analyze_scenario")

\* what the sourcer call gives its caller
SourcingReturns(value) ==
    /\ ret' = [op |-> sourcing.method, scenario |-> sourcing.scenario,
               year |-> current_year, financial_data |-> financial_data,
               value |-> value]
    /\ sourcing' = NoSourcing

\* property_sourcer.py lines 136-157: one pass of the loop over the templates
StepGenerateProperty ==
    /\ sourcing.stage = "generate_houston_properties"
    /\ sourcing.todo # << >>
    /\ \E template \in {Head(sourcing.todo)},
          result \in {underwrite_property(Head(sourcing.todo), Inf)} :
           IF template.purchase_price <= sourcing.scenario.max_purchase_price
           THEN IF IsRaised(result)
                THEN SourcingReturns(result)
                ELSE /\ sourcing' =
                           [sourcing EXCEPT
                               !.todo = Tail(@),
                               !.properties =
                                   IF result.coc_return >= sourcing.scenario.min_coc_return
                                   THEN Append(@, template) ELSE @]
                     /\ UNCHANGED ret
           ELSE /\ sourcing' = [sourcing EXCEPT !.todo = Tail(@)]
                /\ UNCHANGED ret
    /\ UNCHANGED <<calculator, financial_data, self_opex, current_year, pc, frame, outcome>>

\* lines 159 and 165-170: the list is returned, results = []
StepGenerated ==
    /\ sourcing.stage = "generate_houston_properties"
    /\ sourcing.todo = << >>
    /\ sourcing' = [stage |-> "underwrite", method |-> sourcing.method,
                    scenario |-> sourcing.scenario, todo |-> sourcing.properties,
                    results |-> << >>]
    /\ UNCHANGED <<calculator, financial_data, self_opex, current_year, pc, frame,
                   outcome, ret>>

\* lines 171-186: one pass of the loop over the properties
StepUnderwriteSourced ==
    /\ sourcing.stage = "underwrite"
    /\ sourcing.todo # << >>
    /\ \E prop \in {Head(sourcing.todo)},
          result \in {underwrite_property(Head(sourcing.todo),
                                          sourcing.scenario.max_oop)} :
           IF IsRaised(result)
           THEN SourcingReturns(result)
           ELSE /\ sourcing' =
                      [sourcing EXCEPT
                          !.todo = Tail(@),
                          !.results =
                              IF /\ result.mortgage_details.total_oop
                                       <= sourcing.scenario.max_oop
                                 /\ result.coc_return >= sourcing.scenario.min_coc_return
                              THEN Append(@, [property_data |-> prop,
                                              underwriting_result |-> result,
                                              meets_requirements |-> TRUE])
                              ELSE @]
                /\ UNCHANGED ret
    /\ UNCHANGED <<calculator, financial_data, self_opex, current_year, pc, frame, outcome>>

\* lines 188-191: the sort; source_properties_for_scenario returns
StepSortResults ==
    /\ sourcing.stage = "underwrite"
    /\ sourcing.todo = << >>
    /\ \E results \in {sort_by_coc(sourcing.results)} :
           IF sourcing.method = "source_properties_for_scenario"
           THEN SourcingReturns(Returned(results))
           ELSE /\ sourcing' = [stage |-> "analyze", method |-> sourcing.method,
                                scenario |-> sourcing.scenario, properties |-> results]
                /\ UNCHANGED ret
    /\ UNCHANGED <<calculator, financial_data, self_opex, current_year, pc, frame, outcome>>

\* lines 200-243: analyze_scenario returns
StepAnalyzeScenario ==
    /\ sourcing.stage = "analyze"
    /\ SourcingReturns(scenario_analysis(sourcing.properties))
    /\ UNCHANGED <<calculator, financial_data, self_opex, current_year, pc, frame, outcome>>

\* calculator.interest_rate = value, while the caller holds no earlier value
SetCalculatorRate ==
    /\ Fresh
    /\ \E value \in CalculatorRates :
          /\ calculator.interest_rate # value
          /\ calculator' = [calculator EXCEPT !.interest_rate = value]
    /\ UNCHANGED <<sourcing, financial_data, self_opex, current_year, pc, frame, outcome, ret>>

\* calculator.calculate_cash_on_cash_return(property_data)
CallCashOnCashReturn ==
    /\ Fresh
    /\ \E property_data \in CalculatorProperties :
          ret' = [op |-> "calculate_cash_on_cash_return",
                  property_data |-> property_data,
                  value |-> calculate_cash_on_cash_return(property_data)]
    /\ UNCHANGED <<sourcing, calculator, financial_data, self_opex, current_year, pc, frame, outcome>>

CocCashFlows == {-1200 * Cents, 0, 1800 * Cents}
CocDownPayments == {-20000 * Cents, 0, 20000 * Cents}

\* engine.calculate_coc_return(annual_cash_flow, down_payment)
CallCocReturn ==
    /\ Fresh
    /\ \E annual_cash_flow \in CocCashFlows, down_payment \in CocDownPayments :
          ret' = [op |-> "calculate_coc_return",
                  annual_cash_flow |-> annual_cash_flow,
                  down_payment |-> down_payment,
                  value |-> calculate_coc_return(annual_cash_flow, down_payment)]
    /\ UNCHANGED <<sourcing, calculator, financial_data, self_opex, current_year, pc, frame, outcome>>

\* engine.calculate_mortgage(purchase_price, down_payment_pct, interest_rate)
CallCalculateMortgage ==
    /\ Fresh
    /\ \E p \in MortgagePrices, d \in MortgageDownPayments, r \in MortgageRates :
          ret' = [op |-> "calculate_mortgage",
                  purchase_price |-> p, down_payment_pct |-> d, interest_rate |-> r,
                  value |-> calculate_mortgage(p, d, r)]
    /\ UNCHANGED <<sourcing, calculator, financial_data, self_opex, current_year, pc, frame, outcome>>

\* engine.assess_risk(property_data, cash_flow, coc_return)
CallAssessRisk ==
    /\ Fresh
    /\ \E dom \in RiskDays, mcf \in RiskCashFlows, coc \in RiskCocs, yb \in RiskYearsBuilt :
          ret' = [op |-> "assess_risk",
                  days_on_market |-> dom, monthly_cash_flow |-> mcf,
                  coc_return |-> coc, year_built |-> yb, year |-> current_year,
                  value |-> assess_risk([days_on_market |-> dom, year_built |-> yb],
                                        [monthly_cash_flow |-> mcf], coc)]
    /\ UNCHANGED <<sourcing, calculator, financial_data, self_opex, current_year, pc, frame, outcome>>

\* engine.generate_recommendation(coc_return, risk_assessment, oop_requirement, total_oop)
CallGenerateRecommendation ==
    /\ Fresh
    /\ \E coc \in RecCocs, level \in RecRiskLevels,
          oop \in OopRequirements, total \in RecTotalOops :
          ret' = [op |-> "generate_recommendation",
                  coc_return |-> coc, risk_level |-> level,
                  oop_requirement |-> oop, total_oop |-> total,
                  value |-> generate_recommendation(coc, [risk_level |-> level], oop, total)]
    /\ UNCHANGED <<sourcing, calculator, financial_data, self_opex, current_year, pc, frame, outcome>>

Next ==
    \/ Tick
    \/ SetDownPaymentPct
    \/ SetInterestRate
    \/ Discard
    \/ Call
    \/ StepMortgage
    \/ StepOperatingExpenses
    \/ StepCashFlow
    \/ StepCocReturn
    \/ StepScenario
    \/ StepOptimization
    \/ StepAssessRisk
    \/ StepRecommendation
    \/ StepReturn
    \/ CallCalculateMortgage
    \/ CallAssessRisk
    \/ CallGenerateRecommendation
    \/ SetCalculatorRate
    \/ CallCashOnCashReturn
    \/ CallTotalReturn
    \/ CallMonthlyMortgagePayment
    \/ CallCocReturn
    \/ CallProcessProperties
    \/ CallLoanAmortization
    \/ CallSourceProperties
    \/ CallAnalyzeScenario
    \/ StepGenerateProperty
    \/ StepGenerated
    \/ StepUnderwriteSourced
    \/ StepSortResults
    \/ StepAnalyzeScenario
    \/ CallOptimizationOpportunities
    \/ CallCalculateMortgageBinary

Spec == Init /\ [][Next]_vars

----------------------------------------------------------------------------
(* Properties *)

Has(name) == name \in DOMAIN frame
CallArguments == {"property_data", "oop_requirement"}
Range(seq) == {seq[i] : i \in DOMAIN seq}

\* the inputs the code rejects
Rejected(purchase_price, down_payment_pct, interest_rate) ==
    \/ purchase_price <= 0
    \/ down_payment_pct < 2000
    \/ interest_rate <= 0
    \/ interest_rate > 2000

\* C1 as stated: calculate_mortgage raises exactly when purchase_price <= 0,
\* down_payment_fraction < 0.20, interest_rate <= 0 or interest_rate >= 0.20
C1_RejectsRateAtTwentyPercent ==
    ret.op = "calculate_mortgage" =>
        (IsRaised(ret.value) <=>
            \/ ret.purchase_price <= 0
            \/ ret.down_payment_pct < 2000
            \/ ret.interest_rate <= 0
            \/ ret.interest_rate >= 2000)

\* C1 amended: calculate_mortgage raises exactly when purchase_price <= 0,
\* down_payment_fraction < 0.20, interest_rate <= 0 or interest_rate > 0.20,
\* and underwrite_property gets past its first step only with inputs outside
\* that set; a rate of exactly 0.20 is accepted
C1_ValidationBoundaries ==
    /\ ret.op = "calculate_mortgage" =>
          (IsRaised(ret.value) <=>
              Rejected(ret.purchase_price, ret.down_payment_pct, ret.interest_rate))
    /\ pc \notin {"idle", "calculate_mortgage"} =>
          ~Rejected(frame.property_data.purchase_price,
                    financial_data.down_payment_pct, financial_data.interest_rate)

C1_Witness ==
    /\ ret.op = "calculate_mortgage"
    /\ ret.purchase_price > 0
    /\ ret.down_payment_pct = 2000
    /\ ret.interest_rate = 2000
    /\ ~IsRaised(ret.value)

\* C2: a call of underwrite_property with a rejected input ends at its first
\* step with the error given to the caller, no local besides the arguments
\* assigned and no result; an error outcome never comes with a derived value
C2_RaisesBeforeComputing ==
    /\ [](outcome.kind = "raised" =>
            /\ DOMAIN frame = CallArguments
            /\ DOMAIN outcome = {"kind", "message"}
            /\ outcome.message # NoError)
    /\ [][(/\ pc = "calculate_mortgage"
           /\ pc' # pc
           /\ Rejected(frame.property_data.purchase_price,
                       financial_data.down_payment_pct, financial_data.interest_rate))
          => (/\ pc' = "idle"
              /\ outcome'.kind = "raised"
              /\ DOMAIN frame' = CallArguments)]_vars

C2_Witness ==
    /\ outcome.kind = "raised"
    /\ outcome.message = "Down payment must be at least 20%"
    /\ frame.property_data.purchase_price > 0
    /\ DOMAIN frame = CallArguments

Labels ==
    {"PASS - Exceeds OOP requirement", "PASS - High risk level",
     "STRONG BUY - Excellent CoC return", "BUY - Good CoC return",
     "HOLD - Acceptable CoC return", "PASS - Insufficient CoC return"}

\* the ordered table of the recommendation rules, first match wins
RecommendationTable(total_oop, oop_requirement, risk_level, coc, label) ==
    LET r1 == total_oop > oop_requirement
        r2 == risk_level = "High"
    IN  /\ label \in Labels
        /\ r1 => label = "PASS - Exceeds OOP requirement"
        /\ ~r1 /\ r2 => label = "PASS - High risk level"
        /\ ~r1 /\ ~r2 /\ coc >= 90000 => label = "STRONG BUY - Excellent CoC return"
        /\ ~r1 /\ ~r2 /\ coc < 90000 /\ coc >= 70000 => label = "BUY - Good CoC return"
        /\ ~r1 /\ ~r2 /\ coc < 70000 /\ coc >= 50000 => label = "HOLD - Acceptable CoC return"
        /\ ~r1 /\ ~r2 /\ coc < 50000 => label = "PASS - Insufficient CoC return"

\* C3: the label generate_recommendation returns, called directly or inside
\* underwrite_property, is the one the six ordered rules give and one of the six
C3_RecommendationOrder ==
    /\ ret.op = "generate_recommendation" =>
          RecommendationTable(ret.total_oop, ret.oop_requirement, ret.risk_level,
                              ret.coc_return, ret.value)
    /\ Has("recommendation") =>
          RecommendationTable(frame.mortgage_details.total_oop, frame.oop_requirement,
                              frame.risk_assessment.risk_level, frame.coc_return,
                              frame.recommendation)

C3_Witness ==
    /\ ret.op = "generate_recommendation"
    /\ ret.coc_return = 90000
    /\ ret.risk_level = "Medium"
    /\ ret.total_oop <= ret.oop_requirement
    /\ ret.value = "STRONG BUY - Excellent CoC return"

\* C4: underwrite_property recommends "PASS - Exceeds OOP requirement" exactly
\* when total_oop > oop_requirement, whatever the return and the risk level
\* are, and never when oop_requirement is left at its default
C4_ExceedsOopIffOverRequirement ==
    /\ Has("recommendation") =>
          /\ frame.recommendation = "PASS - Exceeds OOP requirement"
                <=> frame.mortgage_details.total_oop > frame.oop_requirement
          /\ frame.oop_requirement = Inf
                => frame.recommendation # "PASS - Exceeds OOP requirement"
    /\ outcome.kind = "returned" =>
          (outcome.value.recommendation = "PASS - Exceeds OOP requirement"
              <=> outcome.value.mortgage_details.total_oop > frame.oop_requirement)

C4_Witness ==
    /\ outcome.kind = "returned"
    /\ outcome.value.recommendation = "PASS - Exceeds OOP requirement"
    /\ outcome.value.coc_return >= 90000
    /\ outcome.value.risk_assessment.risk_level = "Low"

\* the points of the four rule groups, as the rules are stated
MarketPoints(days_on_market) ==
    IF days_on_market > 90 THEN 2 ELSE IF days_on_market > 60 THEN 1 ELSE 0
CashFlowPoints(monthly_cash_flow) ==
    IF monthly_cash_flow < 0 THEN 3 ELSE IF monthly_cash_flow < 200 * Cents THEN 1 ELSE 0
CocPoints(coc) ==
    IF coc < 50000 THEN 2 ELSE IF coc < 80000 THEN 1 ELSE 0
AgePoints(year, year_built) ==
    IF year - year_built > 30 THEN 1 ELSE 0
Triggered(points) == IF points > 0 THEN 1 ELSE 0

\* C5: assess_risk applies the four rule groups independently: the score is the
\* sum of the points, between 0 and 8, risk_factors holds one description for
\* each triggered group and no other, and the level is High from 5, Medium
\* from 3, Low below
C5_RiskScoreIsSumOfGroups ==
    ret.op = "assess_risk" =>
        LET m == MarketPoints(ret.days_on_market)
            c == CashFlowPoints(ret.monthly_cash_flow)
            r == CocPoints(ret.coc_return)
            a == AgePoints(ret.year, ret.year_built)
            v == ret.value
            f == Range(v.risk_factors)
        IN  /\ v.risk_score = m + c + r + a
            /\ v.risk_score \in 0..8
            /\ Len(v.risk_factors) = Triggered(m) + Triggered(c) + Triggered(r) + Triggered(a)
            /\ "High days on market" \in f <=> m = 2
            /\ "Moderate days on market" \in f <=> m = 1
            /\ "Negative cash flow" \in f <=> c = 3
            /\ "Low cash flow" \in f <=> c = 1
            /\ "Low CoC return" \in f <=> r = 2
            /\ "Moderate CoC return" \in f <=> r = 1
            /\ "Older property" \in f <=> a = 1
            /\ v.risk_level = "High" <=> v.risk_score >= 5
            /\ v.risk_level = "Medium" <=> v.risk_score \in 3..4
            /\ v.risk_level = "Low" <=> v.risk_score <= 2

C5_Witness ==
    /\ ret.op = "assess_risk"
    /\ ret.monthly_cash_flow < 0
    /\ ret.value.risk_score = 8
    /\ Len(ret.value.risk_factors) = 4

\* C6: mitigation_strategies has one strategy for each triggered risk factor
C6_OneStrategyPerFactor ==
    ret.op = "assess_risk" =>
        Len(ret.value.mitigation_strategies) = Len(ret.value.risk_factors)

ExpenseItems ==
    <<"internet", "water", "electricity", "natural_gas", "pest_control",
      "pool_maintenance", "property_tax", "insurance", "maintenance",
      "management", "vacancy">>

\* the sum of the line items of opex named in items[1..n]
SumItems[opex \in [Range(ExpenseItems) -> Int], n \in 0..Len(ExpenseItems)] ==
    IF n = 0 THEN 0 ELSE SumItems[opex, n - 1] + opex[ExpenseItems[n]]

\* C7: the expense total calculate_cash_flow subtracts from rent is the sum of
\* all eleven line items, the vacancy reserve included, and NOI is rent less
\* that total
C7_TotalIncludesVacancy ==
    Has("cash_flow") =>
        /\ frame.cash_flow.monthly_expenses = SumItems[frame.opex, 11]
        /\ frame.cash_flow.net_operating_income =
              frame.cash_flow.monthly_rent - frame.cash_flow.monthly_expenses

ScenariosDone(f) == "scenarios" \in DOMAIN f /\ DOMAIN f.scenarios = {"low", "mid", "high"}

\* C8: with a positive base rent the cash-on-cash returns of the scenarios
\* are ordered low <= mid <= high
C8_ScenarioOrdering ==
    /\ ScenariosDone(frame) /\ frame.property_data.estimated_rent > 0 =>
          /\ frame.scenarios.low.coc_return <= frame.scenarios.mid.coc_return
          /\ frame.scenarios.mid.coc_return <= frame.scenarios.high.coc_return
    /\ outcome.kind = "returned" /\ outcome.value.property_data.estimated_rent > 0 =>
          /\ outcome.value.scenarios.low.coc_return <= outcome.value.scenarios.mid.coc_return
          /\ outcome.value.scenarios.mid.coc_return <= outcome.value.scenarios.high.coc_return

C8_Witness ==
    /\ outcome.kind = "returned"
    /\ outcome.value.property_data.estimated_rent > 0
    /\ outcome.value.scenarios.low.coc_return < outcome.value.scenarios.mid.coc_return
    /\ outcome.value.scenarios.mid.coc_return < outcome.value.scenarios.high.coc_return

\* C9: in each scenario the monthly_expenses of the scenario's cash flow is
\* the adjusted expenses the scenario reports
C9_ScenarioUsesAdjustedExpenses ==
    ScenariosDone(frame) =>
        \A t \in {"low", "mid", "high"} :
            frame.scenarios[t].cash_flow.monthly_expenses = frame.scenarios[t].expenses

\* the cash-on-cash return underwrite_property computes for a price and a rent
\* under the current assumptions
underwrite_coc(purchase_price, estimated_rent) ==
    LET mortgage_details == calculate_mortgage(purchase_price,
                                financial_data.down_payment_pct,
                                financial_data.interest_rate)
        opex == calculate_operating_expenses(purchase_price, estimated_rent)
        cash_flow == calculate_cash_flow(estimated_rent, opex,
                                         mortgage_details.monthly_payment)
    IN  calculate_coc_return(cash_flow.annual_cash_flow, mortgage_details.down_payment)

\* C10: of two properties that differ only in the monthly rent, the one with
\* the higher rent never has the lower cash-on-cash return, in
\* underwrite_property and in FinancialCalculator.calculate_cash_on_cash_return
C10_CocMonotoneInRent ==
    /\ pc # "idle" /\ Has("coc_return") =>
          /\ frame.coc_return = underwrite_coc(frame.property_data.purchase_price,
                                               frame.property_data.estimated_rent)
          /\ \A rent \in Rents :
                rent >= frame.property_data.estimated_rent =>
                    underwrite_coc(frame.property_data.purchase_price, rent)
                        >= frame.coc_return
    /\ ret.op = "calculate_cash_on_cash_return"
          /\ DOMAIN ret.property_data = {"price", "estimated_rental_income"} =>
          \A rent \in Rents :
              rent >= ret.property_data.estimated_rental_income =>
                  calculate_cash_on_cash_return(
                      [ret.property_data EXCEPT !.estimated_rental_income = rent])
                      >= ret.value

C10_Witness ==
    /\ ret.op = "calculate_cash_on_cash_return"
    /\ DOMAIN ret.property_data = {"price", "estimated_rental_income"}
    /\ ret.property_data.price > 0
    /\ \E rent \in Rents :
          /\ rent > ret.property_data.estimated_rental_income
          /\ calculate_cash_on_cash_return(
                 [ret.property_data EXCEPT !.estimated_rental_income = rent]) > ret.value

\* C11: the total_return calculate_total_return returns is the sum of the four
\* components it returns, also when a value of the input is not a number and
\* the figures are defaulted
C11_TotalIsSumOfComponents ==
    ret.op = "calculate_total_return" =>
        LET v == ret.value
        IN  /\ v.total_return = v.cash_on_cash_return + v.appreciation_return
                                + v.tax_savings_return + v.principal_paydown_return
            /\ ~NonNumeric(ret.property_data, "price")
               /\ ~NonNumeric(ret.property_data, "estimated_rental_income") =>
                  /\ v.cash_on_cash_return = calculate_cash_on_cash_return(ret.property_data)
                  /\ v.appreciation_return = calculate_appreciation_return(ret.property_data)
                  /\ v.tax_savings_return = calculate_tax_savings_return(ret.property_data)
                  /\ v.principal_paydown_return =
                        calculate_principal_paydown_return(ret.property_data)

C11_Witness ==
    /\ ret.op = "calculate_total_return"
    /\ DOMAIN ret.property_data = {"price", "estimated_rental_income"}
    /\ ret.value.cash_on_cash_return < 0
    /\ ret.value.appreciation_return > 0
    /\ ret.value.tax_savings_return > 0
    /\ ret.value.principal_paydown_return > 0
    /\ ret.value.total_return > 0

\* the result holds a return other than zero
ReturnedWithReturn == outcome.kind = "returned" /\ outcome.value.coc_return # 0

\* C12 as stated: the coc_return of a result is annual_cash_flow / down_payment
\* x 100 rounded to 2 decimals; a figure of n hundredths of a percent is the
\* number n / 100, and the model's coc_return c is the number c / CocScale
C12_ReportedAsRoundedPercent ==
    outcome.kind = "returned" =>
        outcome.value.coc_return =
            DivRound4(outcome.value.cash_flow_analysis.annual_cash_flow,
                      outcome.value.mortgage_details.down_payment) * (CocScale \div 100)

\* C12 amended: the coc_return of a result is the fraction annual_cash_flow /
\* down_payment itself, not multiplied by 100 and not rounded (9% is 0.09),
\* and roi is the same number
C12_ReportedAsFraction ==
    outcome.kind = "returned" =>
        /\ outcome.value.coc_return =
              DivFix(outcome.value.cash_flow_analysis.annual_cash_flow,
                     outcome.value.mortgage_details.down_payment)
        /\ outcome.value.roi = outcome.value.coc_return

C12_Witness ==
    /\ ReturnedWithReturn
    /\ outcome.value.coc_return >= 90000
    /\ outcome.value.coc_return < CocScale
    /\ outcome.value.recommendation = "STRONG BUY - Excellent CoC return"

\* a candidate the scenario asks for: within the price limit, and underwritten
\* with the client's max_oop within that limit and at or above min_coc_return
Qualifies(t, scenario) ==
    /\ t.purchase_price <= scenario.max_purchase_price
    /\ underwrite_property(t, scenario.max_oop).mortgage_details.total_oop
          <= scenario.max_oop
    /\ underwrite_property(t, scenario.max_oop).coc_return >= scenario.min_coc_return

\* C13: every result source_properties_for_scenario returns is a candidate
\* within max_purchase_price, underwritten with oop_requirement = max_oop, with
\* total_oop <= max_oop and coc_return >= min_coc_return; every candidate
\* meeting the three conditions is returned, once; the list is in
\* non-increasing order of coc_return
C13_SourcedResultsFilteredAndRanked ==
    ret.op = "source_properties_for_scenario" /\ ~IsRaised(ret.value)
        /\ ret.year = current_year /\ ret.financial_data = financial_data =>
        LET results == ret.value.value
            scenario == ret.scenario
        IN  /\ \A i \in DOMAIN results :
                  /\ results[i].property_data \in Range(property_templates)
                  /\ Qualifies(results[i].property_data, scenario)
                  /\ results[i].underwriting_result =
                        underwrite_property(results[i].property_data, scenario.max_oop)
            /\ \A t \in Range(property_templates) :
                  Qualifies(t, scenario) =>
                      Cardinality({i \in DOMAIN results : results[i].property_data = t}) = 1
            /\ \A i \in DOMAIN results : \A j \in DOMAIN results :
                  i < j => results[i].underwriting_result.coc_return
                              >= results[j].underwriting_result.coc_return

C13_Witness ==
    /\ ret.op = "source_properties_for_scenario"
    /\ ~IsRaised(ret.value)
    /\ Len(ret.value.value) >= 3
    /\ ret.value.value[1].underwriting_result.coc_return
          > ret.value.value[Len(ret.value.value)].underwriting_result.coc_return
    /\ \E t \in Range(property_templates) :
          /\ t.purchase_price <= ret.scenario.max_purchase_price
          /\ \A i \in DOMAIN ret.value.value : ret.value.value[i].property_data # t

\* C14 as stated: analyze_scenario returns as many recommendations as
\* properties_found says were retained
C14_RecommendationsMatchCount ==
    ret.op = "analyze_scenario" /\ ~IsRaised(ret.value) =>
        Len(ret.value.recommendations) = ret.value.properties_found

\* C14 amended: properties_found is the number of all retained results, and
\* recommendations holds the first three of them in rank order, or all of them
\* when fewer than three were retained
C14_TopThreeOfRanked ==
    ret.op = "analyze_scenario" /\ ~IsRaised(ret.value)
        /\ ret.year = current_year /\ ret.financial_data = financial_data =>
        LET ranked == source_properties_for_scenario(ret.scenario).value
            found == ret.value.properties_found
            recommendations == ret.value.recommendations
        IN  /\ found = Len(ranked)
            /\ Len(recommendations) = IF found < 3 THEN found ELSE 3
            /\ \A i \in DOMAIN recommendations :
                  /\ recommendations[i].purchase_price
                        = ranked[i].property_data.purchase_price
                  /\ recommendations[i].coc_return
                        = ranked[i].underwriting_result.coc_return

C14_Witness ==
    /\ ret.op = "analyze_scenario"
    /\ ~IsRaised(ret.value)
    /\ ret.value.properties_found > 3
    /\ Len(ret.value.recommendations) = 3

C16_ReturnedResultNeverChanges ==
    [][outcome.kind = "returned" /\ outcome'.kind = "returned" =>
          outcome'.value = outcome.value]_vars

\* C17: the result of a call is the one any call with the same property
\* record, assumptions and oop_requirement gives, whatever the date: the result
\* about to be returned is what underwrite_property gives for the same
\* arguments in the state the call returns in
C17_ResultIndependentOfDate ==
    pc = "return" =>
        UnderwritingResult =
            underwrite_property(frame.property_data, frame.oop_requirement)

\* the titles an opportunity list must have, in order, for a rent and a
\* management fee
ExpectedTitles(monthly_rent, management) ==
    (IF monthly_rent > 0 THEN << "Rental Rate Optimization" >> ELSE << >>)
    \o (IF management > 0 THEN << "Self-Management" >> ELSE << >>)
    \o << "Energy Efficiency", "Curb Appeal Enhancement", "Kitchen Updates" >>

OpportunityListOk(opportunities, monthly_rent, management) ==
    LET n == Len(opportunities)
    IN  /\ [i \in 1..n |-> opportunities[i].title] = ExpectedTitles(monthly_rent, management)
        /\ n \in 3..5
        /\ \A i \in 1..n : opportunities[i].annual_benefit > 0
        /\ opportunities[n - 2].investment = 500 * Cents
        /\ opportunities[n - 2].annual_benefit = 600 * Cents
        /\ opportunities[n - 1].investment = 2000 * Cents
        /\ opportunities[n - 1].annual_benefit = 1200 * Cents
        /\ opportunities[n].investment = 5000 * Cents
        /\ opportunities[n].annual_benefit = 1800 * Cents

\* C18: the opportunity list holds the rental-rate entry only when the rent
\* increase is positive, the self-management entry only when the management
\* fee is positive, then always energy efficiency (500, 600), curb appeal
\* (2000, 1200) and kitchen update (5000, 1800), in that order: 3 to 5
\* entries, each with annual_benefit > 0
C18_OpportunityList ==
    /\ ret.op = "generate_optimization_opportunities" =>
          OpportunityListOk(ret.value, ret.cash_flow.monthly_rent,
                            ret.cash_flow.expense_breakdown.management)
    /\ Has("optimization_opportunities") =>
          OpportunityListOk(frame.optimization_opportunities,
                            frame.cash_flow.monthly_rent,
                            frame.cash_flow.expense_breakdown.management)

C18_Witness ==
    /\ ret.op = "generate_optimization_opportunities"
    /\ ret.cash_flow.monthly_rent > 0
    /\ ret.cash_flow.expense_breakdown.management <= 0
    /\ Len(ret.value) = 4

RoiOk(opportunities) ==
    \A i \in DOMAIN opportunities :
        LET o == opportunities[i]
        IN  /\ o.roi = Inf <=> o.investment = 0
            /\ o.investment = 0 => o.annual_benefit > 0
            /\ o.investment # 0 => o.roi * o.investment = o.annual_benefit * 100

\* C19: in every opportunity roi is the 'infinite' sentinel exactly when
\* investment = 0, and then annual_benefit > 0; otherwise roi is annual_benefit
\* / investment, which is 1.2, 0.6 and 0.36 for the three improvements
C19_RoiSentinel ==
    /\ ret.op = "generate_optimization_opportunities" =>
          /\ RoiOk(ret.value)
          /\ LET n == Len(ret.value)
             IN  << ret.value[n - 2].roi, ret.value[n - 1].roi, ret.value[n].roi >>
                    = << 120, 60, 36 >>
    /\ Has("optimization_opportunities") => RoiOk(frame.optimization_opportunities)

C19_Witness ==
    /\ Has("optimization_opportunities")
    /\ Len(frame.optimization_opportunities) = 5
    /\ frame.optimization_opportunities[1].roi = Inf
    /\ frame.optimization_opportunities[2].roi = Inf
    /\ frame.optimization_opportunities[3].roi = 120

\* C20: for every valid purchase price and down payment fraction of at least
\* 0.20, down_payment + loan_amount = purchase_price and total_oop =
\* down_payment + closing_costs, the sums taken as the program takes them
C20_DownPaymentPlusLoanIsPrice ==
    ret.op = "calculate_mortgage_binary" =>
        /\ FloatAdd(ret.value.down_payment, ret.value.loan_amount)
              = ret.value.purchase_price
        /\ ret.value.total_oop
              = FloatAdd(ret.value.down_payment, ret.value.closing_costs)

\* C21 as stated: at an annual interest rate of exactly 0 the monthly payment
\* is loan_amount / num_payments without an error, in engine.calculate_mortgage
\* as in calculator.calculate_monthly_mortgage_payment
C21_ZeroRateReturnsQuotient ==
    /\ ret.op = "calculate_mortgage" /\ ret.interest_rate = 0
       /\ ret.purchase_price > 0 /\ ret.down_payment_pct >= 2000 =>
          /\ ~IsRaised(ret.value)
          /\ ret.value.monthly_payment = ret.value.loan_amount \div ret.value.num_payments
    /\ ret.op = "calculate_monthly_mortgage_payment" /\ calculator.interest_rate = 0
       /\ ret.loan_amount > 0 =>
          ret.value = ret.loan_amount \div (calculator.loan_term * 12)

\* C21: at an annual interest rate of exactly 0,
\* calculator.calculate_monthly_mortgage_payment returns loan_amount /
\* num_payments for a positive loan amount, while engine.calculate_mortgage
\* raises "Interest rate must be positive" for an otherwise valid input
C21_ZeroRateQuotientOrRejected ==
    /\ ret.op = "calculate_mortgage" /\ ret.interest_rate = 0
       /\ ret.purchase_price > 0 /\ ret.down_payment_pct >= 2000 =>
          ret.value = Raised("Interest rate must be positive")
    /\ ret.op = "calculate_monthly_mortgage_payment" /\ calculator.interest_rate = 0
       /\ ret.loan_amount > 0 =>
          ret.value = ret.loan_amount \div (calculator.loan_term * 12)

C21_Witness ==
    /\ ret.op = "calculate_monthly_mortgage_payment"
    /\ calculator.interest_rate = 0
    /\ ret.loan_amount = 80000 * Cents
    /\ ret.value = 22222

\* C22: the monthly payment operation fails with an input error when the loan
\* amount is negative; it returns no payment for a negative loan amount
C22_NegativeLoanFails ==
    /\ ret.op = "calculate_monthly_mortgage_payment" /\ ret.loan_amount < 0 =>
          ret.value \notin Int
    /\ ret.op = "calculate_mortgage" /\ ~IsRaised(ret.value) =>
          ret.value.loan_amount >= 0

\* the down payment the calculator derives from a property dictionary
calculator_down_payment(property_data) ==
    MulRate(Get(property_data, "price"), calculator.down_payment_pct)

\* C23: every return formula that divides by the down payment returns 0 when
\* the down payment is zero or negative: calculate_coc_return of the engine,
\* calculate_cash_on_cash_return of the calculator, and the four components
\* and the total of calculate_total_return, so that a property of price 0 has
\* all of them 0
C23_DivisionGuard ==
    /\ ret.op = "calculate_coc_return" /\ ret.down_payment <= 0 => ret.value = 0
    /\ ret.op = "calculate_cash_on_cash_return"
       /\ calculator_down_payment(ret.property_data) <= 0 => ret.value = 0
    /\ ret.op = "calculate_total_return"
       /\ calculator_down_payment(ret.property_data) <= 0 =>
          /\ ret.value.cash_on_cash_return = 0
          /\ ret.value.appreciation_return = 0
          /\ ret.value.tax_savings_return = 0
          /\ ret.value.principal_paydown_return = 0
          /\ ret.value.total_return = 0

C23_Witness ==
    /\ ret.op = "calculate_total_return"
    /\ DOMAIN ret.property_data = {"price", "estimated_rental_income"}
    /\ ret.property_data.price = 0
    /\ ret.property_data.estimated_rental_income = 1840 * Cents
    /\ ret.value.total_return = 0
    /\ ret.value.annual_cash_flow > 0

ReturnKeys ==
    {"cash_on_cash_return", "appreciation_return", "tax_savings_return",
     "principal_paydown_return", "total_return"}

\* C24: calculate_total_return returns for every property record, also one
\* whose price or rent is missing, zero or not a number, without raising, and
\* the record it returns has the four component keys and total_return
C24_TotalReturnIsTotal ==
    ret.op = "calculate_total_return" =>
        /\ ~IsRaised(ret.value)
        /\ ReturnKeys \subseteq DOMAIN ret.value
        /\ \A key \in ReturnKeys : ret.value[key] \in Int

C24_Witness ==
    /\ ret.op = "calculate_total_return"
    /\ NonNumeric(ret.property_data, "price")
    /\ ReturnKeys \subseteq DOMAIN ret.value
    /\ ret.value.total_return = 0

RowKeys ==
    {"address", "price", "total_return", "cash_on_cash_return", "appreciation_return",
     "tax_savings_return", "principal_paydown_return"}

\* C25: for every list of property records, the empty list included,
\* process_properties returns a table with one row per input record, each row
\* carrying address, price, total_return and the four return components, the
\* rows in non-increasing order of total_return
C25_OneRowPerRecordRanked ==
    ret.op = "process_properties" =>
        /\ ~IsRaised(ret.value)
        /\ Len(ret.value.value) = Len(ret.properties)
        /\ \A i \in 1..Len(ret.value.value) : RowKeys \subseteq DOMAIN ret.value.value[i]
        /\ \A i \in 1..(Len(ret.value.value) - 1) :
              ret.value.value[i].total_return >= ret.value.value[i + 1].total_return

\* the identities of one CashFlowResult financed at monthly_payment
CashFlowIdentities(cf, monthly_payment) ==
    /\ cf.net_operating_income = cf.monthly_rent - cf.monthly_expenses
    /\ cf.monthly_mortgage = monthly_payment
    /\ cf.monthly_cash_flow = cf.net_operating_income - cf.monthly_mortgage
    /\ cf.annual_cash_flow = 12 * cf.monthly_cash_flow

\* C26: in a returned result the base cash flow and the cash flow of each of
\* the scenarios low, mid and high satisfy net_operating_income = monthly_rent
\* - monthly_expenses, monthly_cash_flow = net_operating_income -
\* monthly_mortgage and annual_cash_flow = 12 x monthly_cash_flow, with
\* monthly_mortgage the one monthly_payment of the result's mortgage terms; the
\* mid scenario's cash flow and cash-on-cash return are the base ones
C26_CashFlowIdentities ==
    outcome.kind = "returned" =>
        LET result == outcome.value
            monthly_payment == result.mortgage_details.monthly_payment
        IN  /\ CashFlowIdentities(result.cash_flow_analysis, monthly_payment)
            /\ \A t \in {"low", "mid", "high"} :
                  CashFlowIdentities(result.scenarios[t].cash_flow, monthly_payment)
            /\ result.scenarios.mid.cash_flow = result.cash_flow_analysis
            /\ result.scenarios.mid.coc_return = result.coc_return

C26_Witness ==
    /\ outcome.kind = "returned"
    /\ outcome.value.mortgage_details.monthly_payment > 0
    /\ outcome.value.scenarios.low.cash_flow.monthly_cash_flow
          < outcome.value.cash_flow_analysis.monthly_cash_flow
    /\ outcome.value.cash_flow_analysis.monthly_cash_flow
          < outcome.value.scenarios.high.cash_flow.monthly_cash_flow
    /\ outcome.value.scenarios.low.cash_flow.monthly_mortgage
          = outcome.value.scenarios.high.cash_flow.monthly_mortgage

\* the state of calculate_loan_amortization's loop after the given number of months
AfterMonths(loan_amount, months) ==
    amortize([monthly_payment |-> calculate_monthly_mortgage_payment(loan_amount),
              annual_interest |-> 0, annual_principal |-> 0,
              remaining_balance |-> loan_amount],
             MulRate(FixScale, calculator.interest_rate) \div 12, months)

\* month k of the loop: interest = balance x monthly rate, principal = payment
\* - interest, the balance reduced by the principal
MonthStep(before, after) ==
    LET interest_payment ==
            MulFix(before.remaining_balance,
                   MulRate(FixScale, calculator.interest_rate) \div 12)
        principal_payment == before.monthly_payment - interest_payment
    IN  /\ after.annual_interest = before.annual_interest + interest_payment
        /\ after.annual_principal = before.annual_principal + principal_payment
        /\ after.remaining_balance = before.remaining_balance - principal_payment

PassLabels ==
    {"PASS - Exceeds OOP requirement", "PASS - High risk level",
     "PASS - Insufficient CoC return"}

\* C28: a returned result whose base monthly cash flow is negative has risk
\* level High (the negative cash flow adds 3, the negative cash-on-cash return
\* 2) and a PASS recommendation, whatever days_on_market, year_built and
\* oop_requirement are
C28_NegativeCashFlowIsHighRisk ==
    outcome.kind = "returned"
    /\ outcome.value.cash_flow_analysis.monthly_cash_flow < 0 =>
        /\ outcome.value.coc_return < 0
        /\ "Negative cash flow" \in Range(outcome.value.risk_assessment.risk_factors)
        /\ "Low CoC return" \in Range(outcome.value.risk_assessment.risk_factors)
        /\ outcome.value.risk_assessment.risk_score >= 5
        /\ outcome.value.risk_assessment.risk_level = "High"
        /\ outcome.value.recommendation \in PassLabels

C28_Witness ==
    /\ outcome.kind = "returned"
    /\ outcome.value.cash_flow_analysis.monthly_cash_flow < 0
    /\ outcome.value.property_data.days_on_market = 45
    /\ outcome.value.property_data.year_built = 2015
    /\ frame.oop_requirement = Inf
    /\ outcome.value.risk_assessment.risk_score = 5
    /\ outcome.value.recommendation = "PASS - High risk level"

\* C29: a returned result whose cash-on-cash return is at least 0.09 and whose
\* total_oop does not exceed oop_requirement is a STRONG BUY whatever
\* days_on_market and year_built are: its risk score is at most 4, so the
\* high-risk rule does not apply
C29_StrongBuyNeverOverridden ==
    outcome.kind = "returned"
    /\ outcome.value.coc_return >= 90000
    /\ outcome.value.mortgage_details.total_oop <= frame.oop_requirement =>
        /\ outcome.value.risk_assessment.risk_score <= 4
        /\ outcome.value.risk_assessment.risk_level # "High"
        /\ outcome.value.recommendation = "STRONG BUY - Excellent CoC return"

C29_Witness ==
    /\ outcome.kind = "returned"
    /\ outcome.value.coc_return >= 90000
    /\ outcome.value.mortgage_details.total_oop <= frame.oop_requirement
    /\ outcome.value.risk_assessment.risk_score = 4
    /\ outcome.value.recommendation = "STRONG BUY - Excellent CoC return"

\* a property of positive price whose price and rent are numbers
Priced(property_data) ==
    /\ ~NonNumeric(property_data, "price")
    /\ ~NonNumeric(property_data, "estimated_rental_income")
    /\ Get(property_data, "price") > 0

ReferenceProperty ==
    [price |-> 100000 * Cents, estimated_rental_income |-> 1840 * Cents]

====
